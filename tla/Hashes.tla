-------------------------------- MODULE Hashes --------------------------------
(* The hash functions of SREP side by side.  They share no state: a behaviour *)
(* exercises one of them and the others stay as they are before their first   *)
(* use.                                                                       *)
EXTENDS SelfTests, Fortuna, RollingHash

VARIABLE part \* the function at work
hashVars == <<part, digestVars, objectVars, fortunaVars, rollingVars>>

HashesIdle == DigestIdle /\ ObjectIdle /\ FortunaInit /\ RollingIdle
HashInit ==
  \/ /\ part = "digests"
     /\ DigestInit /\ ObjectIdle /\ FortunaInit /\ RollingIdle
  \/ /\ part = "objects"
     /\ ObjectInit /\ DigestIdle /\ FortunaInit /\ RollingIdle
  \/ /\ part = "prng"
     /\ FortunaInit /\ DigestIdle /\ ObjectIdle /\ RollingIdle
  \/ /\ part = "rolling"
     /\ RollingInit /\ DigestIdle /\ ObjectIdle /\ FortunaInit

HashNext ==
  /\ UNCHANGED part
  /\ \/ part = "digests" /\ DigestNext /\ UNCHANGED <<objectVars, fortunaVars, rollingVars>>
     \/ part = "objects" /\ ObjectNext /\ UNCHANGED <<digestVars, fortunaVars, rollingVars>>
     \/ part = "prng" /\ FortunaNext /\ UNCHANGED <<digestVars, objectVars, rollingVars>>
     \/ part = "rolling" /\ RollingNext /\ UNCHANGED <<digestVars, objectVars, fortunaVars>>
HashSpec == HashInit /\ [][HashNext]_hashVars

-----------------------------------------------------------------------------
(* What the functions compute is what the self-tests in their sources say     *)
(* they compute: no constant, table, rotation or byte order is wrong, so      *)
(* another implementation can check an archive.                               *)
KnownAnswers ==
  /\ at = "out" => \A d \in DigestTests :
                     d.h = job.h /\ d.text = job.text => Digest = d.answer
  /\ operands.op = "aes" /\ result # <<>> =>
       \A c \in ECB_TEST : c.key = operands.key /\ c.text = operands.text => result = c.answer
  /\ \A j \in DOMAIN sums : \A t \in should_be :
       t.key = seed.key /\ t.text = sums[j][2] =>
         vmac(sums[j][3], t.nonce, object[sums[j][1]].ctx) = t.answer
=============================================================================
