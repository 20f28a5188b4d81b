------------------------------- MODULE Emitter -------------------------------
(***************************************************************************)
(* Emitter.ts and EmitterEntry.ts, which the backend and the frontend hold *)
(* a copy of each.  All of it is synchronous; what is hard is that a       *)
(* listener may use the emitter that is calling it: add, remove and emit   *)
(* while an emit runs, also of the same event.                             *)
(*                                                                         *)
(* emit filters the list it found; Array.prototype.filter visits the       *)
(* elements the list had when it began.  Whoever adds a listener pushes it *)
(* to the list of that moment, whoever removes one replaces the list, and  *)
(* emit replaces it in the end by what its filter has kept - in the object *)
(* that was _handlers when it began, which removeAllListeners exchanges for*)
(* a new one.  So lists are values here: nobody sees a push but through    *)
(* handlers.                                                               *)
(***************************************************************************)
EXTENDS FiniteSets, Naturals, Integers, Sequences, SequencesExt

CONSTANTS
  Event, Func, Context,
  Entry,      \* EmitterEntry objects that may be made
  MaxTimes,   \* listeners for 1 .. MaxTimes emits, or for all
  MaxDepth,   \* emits inside of emits
  Null

Infinity == MaxTimes + MaxDepth + 1   \* times that is never used up
Times == 1 .. MaxTimes \cup {Infinity}

\* An EmitterEntry; history: the times given, and the event.
Listener == [func: Func, context: Context, times: Int, given: Times,
             event: Event]

ASSUME EmitterAssumption ==
  /\ MaxTimes \in Nat /\ MaxDepth \in Nat
  /\ Null \notin Seq(Entry) /\ Null \notin Listener

VARIABLES
  handlers,   \* the list of each event, or Null
  entries,    \* the objects, Null if not made yet
  stack,      \* the emits that are running, the innermost last
  expected,   \* history: the lists without what listeners do to them
  disturbed,  \* history: events used by a listener while an emit of them ran
  calls       \* history: how often the function of an entry was called;
              \* beyond MaxTimes nobody counts

emitterVars == <<handlers, entries, stack, expected, disturbed, calls>>
history == <<expected, disturbed, calls>>

\* list: what filter visits; next: the index it is at; kept: its result so
\* far; calling: the function of list[next] runs; current: the object it has
\* the list from is still _handlers.
Frame == [event: Event, list: Seq(Entry), next: Nat \ {0}, kept: Seq(Entry),
          calling: BOOLEAN, current: BOOLEAN]

EmitterTypeOK ==
  /\ handlers \in [Event -> Seq(Entry) \cup {Null}]
  /\ entries \in [Entry -> Listener \cup {Null}]
  /\ \A x \in Entry : entries[x] # Null /\ entries[x].times # Infinity =>
       entries[x].times <= MaxTimes
  /\ stack \in Seq(Frame)
  /\ expected \in [Event -> Seq(Entry)]
  /\ disturbed \in SUBSET Event
  /\ calls \in [Entry -> Nat]

EmitterInit ==
  /\ handlers = [e \in Event |-> Null]
  /\ entries = [x \in Entry |-> Null]
  /\ stack = <<>>
  /\ expected = [e \in Event |-> <<>>]
  /\ disturbed = {}
  /\ calls = [x \in Entry |-> 0]

-----------------------------------------------------------------------------

Top == Last(stack)
\* Code runs outside of the emitter, or in the function of a listener.
Runs == stack # <<>> => Top.calling
\* The list of e is still to be replaced by an emit.
IsEmitted(e) == \E i \in DOMAIN stack : stack[i].event = e /\ stack[i].current

\* handlers[e] as a list, and what e gets for a list: a removal that empties
\* it deletes it
ListOf(e) == IF handlers[e] = Null THEN <<>> ELSE handlers[e]
Left(list) == IF list = <<>> THEN Null ELSE list

\* The list without some of its entries
Without(list, gone) ==
  LET kept[i \in 0 .. Len(list)] ==
        IF i = 0 THEN <<>>
        ELSE IF list[i] \in gone THEN kept[i - 1]
        ELSE Append(kept[i - 1], list[i])
  IN  kept[Len(list)]

\* What the caller means by it: the list of e becomes this one.
Expects(e, list) ==
  /\ expected' = [expected EXCEPT ![e] = list]
  /\ disturbed' = IF IsEmitted(e) THEN disturbed \cup {e} ELSE disturbed

-----------------------------------------------------------------------------
(* addListener, on (for all emits), once (for one)                         *)

PushedMutant(list, x) == <<x>>
Pushed(list, x) == Append(list, x)

AddListener(e, x, func, context, times) ==
  /\ Runs
  /\ entries[x] = Null
  /\ entries' = [entries EXCEPT
       ![x] = [func |-> func, context |-> context, times |-> times,
               given |-> times, event |-> e]]
  /\ handlers' = [handlers EXCEPT ![e] = Pushed(ListOf(e), x)]
  /\ Expects(e, Append(expected[e], x))
  /\ UNCHANGED <<stack, calls>>

-----------------------------------------------------------------------------
(* removeListener and off: the entries that the arguments match go, as many*)
(* arguments as are given.                                                 *)

Listed(e) == ToSet(ListOf(e)) \cup ToSet(expected[e])
OfFunc(e, func) == {x \in Listed(e) : entries[x].func = func}
OfContext(e, func, context) ==
  {x \in OfFunc(e, func) : entries[x].context = context}
\* off(event, func, context, true) is for entries that have one emit left.
WithTimes(e, func, context, times) ==
  {x \in OfContext(e, func, context) : entries[x].times <= times}

RemoveListener(e, matched) ==
  /\ Runs
  /\ handlers[e] # Null
  /\ handlers' = [handlers EXCEPT ![e] = Left(Without(@, matched))]
  /\ Expects(e, Without(expected[e], matched))
  /\ UNCHANGED <<entries, stack, calls>>

\* removeAllListeners() exchanges _handlers; the emits that run keep the old
\* object.
RemoveAll ==
  /\ Runs
  /\ handlers' = [e \in Event |-> Null]
  /\ stack' = [i \in DOMAIN stack |-> [stack[i] EXCEPT !.current = FALSE]]
  /\ expected' = [e \in Event |-> <<>>]
  /\ UNCHANGED <<entries, disturbed, calls>>

-----------------------------------------------------------------------------
(* emit                                                                    *)

Emit(e) ==
  /\ Runs
  /\ Len(stack) < MaxDepth
  /\ handlers[e] # Null
  /\ stack' = Append(stack, [event |-> e, list |-> handlers[e], next |-> 1,
                             kept |-> <<>>, calling |-> FALSE,
                             current |-> TRUE])
  /\ disturbed' = IF IsEmitted(e) THEN disturbed \cup {e} ELSE disturbed
  /\ UNCHANGED <<handlers, entries, expected, calls>>

Visits == stack # <<>> /\ ~Top.calling /\ Top.next <= Len(Top.list)
Visited == Top.list[Top.next]
\* filter goes on; the element is in the result if it is kept.
Gone(f, kept) ==
  [f EXCEPT !.next = @ + 1, !.calling = FALSE,
            !.kept = IF kept THEN Append(@, f.list[f.next]) ELSE @]
GoOn(kept) == stack' = [stack EXCEPT ![Len(stack)] = Gone(Top, kept)]

\* callAndCheckTimes
Call ==
  /\ Visits
  /\ entries[Visited].times >= 1
  /\ stack' = [stack EXCEPT ![Len(stack)].calling = TRUE]
  /\ calls' = [calls EXCEPT ![Visited] = IF @ > MaxTimes THEN @ ELSE @ + 1]
  /\ UNCHANGED <<handlers, entries, expected, disturbed>>

Skip ==
  /\ Visits
  /\ entries[Visited].times < 1
  /\ GoOn(FALSE)
  /\ UNCHANGED <<handlers, entries, history>>

AfterMutant(times) == times
AfterUpMutant(times) == IF times = Infinity THEN times ELSE times + 1
After(times) == IF times = Infinity THEN times ELSE times - 1

\* The function returns; its last emit drops an entry.
Return ==
  LET times == After(entries[Visited].times) IN
  /\ stack # <<>> /\ Top.calling
  /\ entries' = [entries EXCEPT ![Visited].times = times]
  /\ GoOn(times >= 1)
  /\ expected' =
       IF times >= 1 THEN expected
       ELSE [expected EXCEPT ![Top.event] = Without(@, {Visited})]
  /\ UNCHANGED <<handlers, disturbed, calls>>

\* The list is replaced by what was kept.
KeptMutant == Top.list
Kept == Top.kept
EmitEnds ==
  /\ stack # <<>> /\ ~Top.calling
  /\ Top.next > Len(Top.list)
  /\ handlers' = IF Top.current
                 THEN [handlers EXCEPT ![Top.event] = Kept]
                 ELSE handlers
  /\ stack' = Front(stack)
  /\ UNCHANGED <<entries, history>>

\* A function throws, and the function that began one of the emits, or the
\* caller of the outermost, catches it: that emit and those inside of it do
\* not replace their lists.
Throws ==
  /\ stack # <<>> /\ Top.calling
  /\ \E n \in DOMAIN stack :
       /\ stack' = SubSeq(stack, 1, n - 1)
       /\ disturbed' = disturbed \cup
            {e \in Event : \E i \in n .. Len(stack) :
                            stack[i].event = e /\ stack[i].current}
  /\ UNCHANGED <<handlers, entries, expected, calls>>

-----------------------------------------------------------------------------

Uses ==
  \E e \in Event :
    \/ \E x \in Entry, func \in Func, context \in Context, times \in Times :
         AddListener(e, x, func, context, times)
    \/ RemoveListener(e, Listed(e))
    \/ \E func \in Func : RemoveListener(e, OfFunc(e, func))
    \/ \E func \in Func, context \in Context :
         \/ RemoveListener(e, OfContext(e, func, context))
         \/ RemoveListener(e, WithTimes(e, func, context, 1))
    \/ Emit(e)

EmitterNext ==
  Uses \/ RemoveAll \/ Call \/ Skip \/ Return \/ EmitEnds \/ Throws

EmitterSpec == EmitterInit /\ [][EmitterNext]_emitterVars

-----------------------------------------------------------------------------
(* Properties                                                              *)

\* Between emits, an event has the listeners that were added and are neither
\* removed nor used up, in the order they were added - as long as no listener
\* has used the event while it was being emitted.
ListIsAsExpected ==
  stack = <<>> => \A e \in Event \ disturbed : ListOf(e) = expected[e]

\* Whatever listeners do, a listener that nobody removed and that is not used
\* up leaves its list only at the end of an emit that had begun before it was
\* added.
OnlyEmitsForgetListeners ==
  [][\A e \in Event :
       \A x \in ToSet(ListOf(e)) \ ToSet(ListOf(e)') :
         \/ entries'[x].times < 1
         \/ x \notin ToSet(expected'[e])
         \/ stack # <<>> /\ ~Top.calling /\ Top.current /\ Top.event = e
            /\ x \notin ToSet(Top.list)]_emitterVars

\* A listener for n emits is called n times at most, as long as no listener
\* has used or left its event while it was being emitted.
CalledAtMostItsTimes ==
  \A x \in Entry :
    entries[x] # Null /\ entries[x].event \notin disturbed =>
      entries[x].given = Infinity \/ calls[x] <= entries[x].given
=============================================================================
