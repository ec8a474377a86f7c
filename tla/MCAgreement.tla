----------------------------- MODULE MCAgreement ------------------------------
(* Agreement with the command lines of MCCodecOptions and the texts of        *)
(* MCHashes and MCChunking.                                                   *)
EXTENDS Agreement, MCCodecOptions, MCHashes, MCChunking
=============================================================================
