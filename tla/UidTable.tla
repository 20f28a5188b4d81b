------------------------------- MODULE UidTable -------------------------------
(***************************************************************************)
(* The table the room records are kept in: UidTable.ts, a JavaScript Map   *)
(* and the generator of its keys.                                          *)
(*                                                                         *)
(* A Map lists its keys in the order they were first set; a key that is    *)
(* deleted and set again goes to the end.  generateUid draws characters    *)
(* after a prefix and appends one more each time it meets an equal key,    *)
(* in one pass over the keys: the iterator it shares between the rounds of *)
(* its outer loop is exhausted after the first, so that the second round   *)
(* compares nothing.  RoomManager is the only user; it reads the table     *)
(* with get, has and list and never sets another value.                    *)
(***************************************************************************)
EXTENDS Naturals, Sequences, SequencesExt

CONSTANTS
  Char,        \* generateChars
  IdLength,    \* characters drawn after the prefix (10 in the code)
  MaxLength,   \* bound: the length an id may grow to
  MaxKeys      \* bound: keys in the table

ASSUME LengthAssumption ==
  IdLength \in Nat \ {0} /\ MaxLength \in Nat /\ MaxKeys \in Nat

VARIABLES
  keys,        \* _map.keys()
  deleted,     \* history: ids that were deleted
  reused,      \* history: some deleted id was given out again
  overwritten  \* history: some record was replaced by another room's

vars == <<keys, deleted, reused, overwritten>>

\* The prefix is a constant of a room's area and takes no part.
Id == UNION {[1 .. n -> Char] : n \in IdLength .. MaxLength}

TypeOK ==
  /\ keys \in Seq(Id) /\ Len(keys) <= MaxKeys /\ IsInjective(keys)
  /\ deleted \subseteq Id
  /\ reused \in BOOLEAN
  /\ overwritten \in BOOLEAN

Init ==
  /\ keys = <<>>
  /\ deleted = {}
  /\ reused = FALSE
  /\ overwritten = FALSE

\* An id that equals a key gets the next of the characters newChar will draw.
Grown(id, key, drawn) ==
  IF id = key THEN Append(id, drawn[Len(id) - IdLength + 1]) ELSE id

\* The pass over the keys, after i of them
ScanMutant(uid, drawn) ==
  LET id[i \in 0 .. Len(keys)] ==
        IF i <= 1 THEN uid ELSE Grown(id[i - 1], keys[i], drawn)
  IN  id[Len(keys)]
Scan(uid, drawn) ==
  LET id[i \in 0 .. Len(keys)] ==
        IF i = 0 THEN uid ELSE Grown(id[i - 1], keys[i], drawn)
  IN  id[Len(keys)]

\* _map.set(uid, associatedObject)
SetFirstMutant(uid) == IF Contains(keys, uid) THEN keys ELSE <<uid>> \o keys
SetTwiceMutant(uid) == Append(keys, uid)
Set(uid) == IF Contains(keys, uid) THEN keys ELSE Append(keys, uid)

\* generateUid
GenerateUid(uid, drawn) ==
  LET id == Scan(uid, drawn)
  IN  /\ Len(keys) < MaxKeys
      /\ Len(id) <= MaxLength
      /\ keys' = Set(id)
      /\ reused' = (reused \/ id \in deleted)
      /\ overwritten' = (overwritten \/ Contains(keys, id))
      /\ UNCHANGED deleted

\* delete
Delete(uid) ==
  /\ \E i \in DOMAIN keys : keys[i] = uid /\ keys' = RemoveAt(keys, i)
  /\ deleted' = deleted \cup {uid}
  /\ UNCHANGED <<reused, overwritten>>

Next ==
  \/ \E uid \in [1 .. IdLength -> Char], drawn \in [1 .. MaxKeys -> Char] :
       GenerateUid(uid, drawn)
  \/ \E uid \in Id : Delete(uid)

Spec == Init /\ [][Next]_vars

-----------------------------------------------------------------------------

\* Two rooms never get one id, and no record is lost, as long as no id of a
\* room that is gone was drawn again.
FreshUntilReused == overwritten => reused

\* One pass is enough when the table has every key behind its prefixes: the
\* keys an id grows past are met in the order in which it grows.
ExtensionsComeAfter ==
  ~reused => \A i, j \in 1 .. Len(keys) :
               IsStrictPrefix(keys[i], keys[j]) => i < j
=============================================================================
