-------------------------- MODULE SnapshotRegister --------------------------
(***************************************************************************)
(* What data behind a sequence lock looks like to its users: a register    *)
(* that is updated in one step, and whose readers get, word for word, the  *)
(* value that is current at one moment of their read.                      *)
(***************************************************************************)
EXTENDS Naturals

CONSTANTS Reader, Word, Nothing

VARIABLES value,     \* the number of updates made: every word holds it
          result     \* result[r]: the words r read, or Nothing

registerVars == <<value, result>>

RegisterInit == value = 0 /\ result = [r \in Reader |-> Nothing]

Update == value' = value + 1 /\ UNCHANGED result

ReadReturns(r) ==
    /\ result' = [result EXCEPT ![r] = [i \in Word |-> value]]
    /\ UNCHANGED value

ResultIsDropped(r) ==
    /\ result' = [result EXCEPT ![r] = Nothing]
    /\ UNCHANGED value

RegisterNext ==
    \/ Update
    \/ \E r \in Reader : ReadReturns(r) \/ ResultIsDropped(r)

RegisterSpec == RegisterInit /\ [][RegisterNext]_registerVars
=============================================================================
