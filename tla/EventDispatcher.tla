-------------------------- MODULE EventDispatcher --------------------------
(***************************************************************************)
(* CPP-015: emit_erased calls the subscribers of a snapshot of ids one by  *)
(* one, and each of them may subscribe, reset any subscription, its own    *)
(* too, emit again, or throw.  The emissions in progress are a stack.  A   *)
(* callback lives in the vector of its type: what happens to that vector   *)
(* while it runs happens to the std::function being called.                *)
(***************************************************************************)
EXTENDS Integers, Sequences, SequencesExt

CONSTANTS
    EventTypes,
    MaxSubscribed, MaxEmitted, MaxNested    \* bounds

VARIABLES
    entries,    \* of each type: the ids, in the order of the vector
    next_id,
    emissions,  \* innermost last: see Emit
    emitted,    \* how many there were
    typeOf      \* history: the type each id was subscribed to

dispatcherVars == <<entries, next_id, emissions, emitted, typeOf>>

InitDispatcher ==
    /\ entries = [t \in EventTypes |-> <<>>] /\ next_id = 1
    /\ emissions = <<>> /\ emitted = 0 /\ typeOf = <<>>

Live(id) == id \in DOMAIN typeOf /\ id \in ToSet(entries[typeOf[id]])
Top == Last(emissions)

\* The caller: code outside any emission, or the callback that runs.
MayCall == emissions # <<>> => Top.running # 0

\* push_back may move every callback of the type to new memory; erase moves
\* those behind the erased one forward, over it.
Disturbed(moved, erased) ==
    [k \in DOMAIN emissions |->
        LET id == emissions[k].running
        IN  [emissions[k] EXCEPT !.function = CASE id = erased /\ id # 0 -> "destroyed"
                 [] id \in ToSet(moved) \ {erased} /\ @ = "whole" -> "moved"
                 [] OTHER -> @]]

Subscribe(t) ==
    /\ MayCall /\ next_id <= MaxSubscribed
    /\ next_id' = next_id + 1
    /\ entries' = [entries EXCEPT ![t] = Append(@, next_id)]
    /\ typeOf' = Append(typeOf, t)
    /\ emissions' \in {emissions, Disturbed(entries[t], 0)}
    /\ UNCHANGED emitted

\* remove_if erases one entry, for no id is given twice.
Reset(id) ==
    /\ MayCall /\ Live(id)
    /\ LET t == typeOf[id]
           list == entries[t]
           i == CHOOSE i \in DOMAIN list : list[i] = id
       IN  /\ entries' = [entries EXCEPT ![t] = RemoveAt(list, i)]
           /\ emissions' = Disturbed(SubSeq(list, i, Len(list)), id)
    /\ UNCHANGED <<next_id, emitted, typeOf>>

Emit(t) ==
    /\ MayCall /\ Len(emissions) < MaxNested /\ emitted < MaxEmitted
    /\ emitted' = emitted + 1
    /\ emissions' = Append(emissions,
           [type |-> t, snapshot |-> entries[t], at |-> 0, running |-> 0, function |-> "whole",
            ran |-> <<>>, since |-> next_id])
    /\ UNCHANGED <<entries, next_id, typeOf>>

Update(emission) == emissions' = Append(Front(emissions), emission)

DueEvenIfReset(emission) == (emission.at + 1)..Len(emission.snapshot)
\* The next id of the snapshot that is still subscribed is called.
Due(emission) ==
    {n \in (emission.at + 1)..Len(emission.snapshot) : Live(emission.snapshot[n])}

CallNext ==
    /\ emissions # <<>> /\ Top.running = 0 /\ Due(Top) # {}
    /\ LET n == CHOOSE n \in Due(Top) : \A m \in Due(Top) : n <= m
           id == Top.snapshot[n]
       IN  Update([Top EXCEPT !.at = n, !.running = id, !.function = "whole",
                              !.ran = Append(@, [id |-> id, live |-> Live(id)])])
    /\ UNCHANGED <<entries, next_id, emitted, typeOf>>

ReturnFromCallback ==
    /\ emissions # <<>> /\ Top.running # 0
    /\ Update([Top EXCEPT !.running = 0])
    /\ UNCHANGED <<entries, next_id, emitted, typeOf>>

\* emit returns, or a callback's exception leaves it.
EndEmission ==
    /\ emissions # <<>>
    /\ Top.running = 0 => Due(Top) = {}
    /\ emissions' = Front(emissions)
    /\ UNCHANGED <<entries, next_id, emitted, typeOf>>

NextDispatcher ==
    \/ \E t \in EventTypes : Subscribe(t) \/ Emit(t)
    \/ \E id \in 1..(next_id - 1) : Reset(id)
    \/ CallNext \/ ReturnFromCallback \/ EndEmission

SpecDispatcher == InitDispatcher /\ [][NextDispatcher]_dispatcherVars

-----------------------------------------------------------------------------
(* Properties *)

\* TASK.md: subscribers run in subscription order, those added meanwhile not at
\* all, those reset meanwhile no more, and each emission independently. For
\* every emission in progress: who ran was subscribed to its type before it
\* began and when called, in order, once; and who was and still is subscribed
\* has not been passed over.
DispatchInOrder ==
    \A k \in DOMAIN emissions :
        LET emission == emissions[k]
            ran == emission.ran
            over == emission.running = 0 /\ Due(emission) = {}
        IN  /\ \A i \in DOMAIN ran :
                   /\ ran[i].live /\ ran[i].id < emission.since
                   /\ typeOf[ran[i].id] = emission.type
                   /\ i > 1 => ran[i - 1].id < ran[i].id
            /\ \A id \in 1..(emission.since - 1) :
                   Live(id) /\ typeOf[id] = emission.type =>
                       \/ \E i \in DOMAIN ran : ran[i].id = id
                       \/ ~over /\ \A i \in DOMAIN ran : ran[i].id < id

\* TASK.md:12 "Self-reset is valid": the std::function that is running lives as
\* long as its call.
RunningCallbackLives ==
    \A k \in DOMAIN emissions : emissions[k].running # 0 => emissions[k].function # "destroyed"
=============================================================================
