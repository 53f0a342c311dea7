------------------------------- MODULE Event -------------------------------
(***************************************************************************)
(* src/core/event.c: an event is a list of callbacks, and a trigger calls  *)
(* them one after the other.  The callbacks are user code: while one runs  *)
(* it may register and unregister callbacks and trigger events, so that a  *)
(* pass over the listeners is interleaved with changes to the very list it *)
(* walks and with other passes.  The C call stack is `stack': one frame    *)
(* per mc_event_trigger in progress, the innermost first, each with the    *)
(* two variables of MC_LIST_FOR_EACH_SAFE.                                 *)
(*                                                                         *)
(* Lists are the events' listener lists, Nodes are the callbacks' nodes.   *)
(***************************************************************************)
EXTENDS ListOps

CONSTANTS
    Late,      \* callbacks that the running program initializes
    MaxDepth,  \* bound on nested triggers
    MaxActs    \* bound on the calls one callback makes each time it runs

ASSUME EventAssumption ==
    Late \subseteq Nodes /\ MaxDepth \in Nat \ {0} /\ MaxActs \in Nat

VARIABLES
    stack,
    silent      \* the callbacks whose func is NULL

vars == <<heap, order, stack, silent>>

(***************************************************************************)
(* A frame: the event, the loop variables curr and storage, whether the    *)
(* callback of curr is running, and four history fields: the callbacks     *)
(* called so far, the listeners when the pass began, those of them it owes *)
(* a call (that had a function, and have not left before their turn), and  *)
(* how many calls the running callback has made.                           *)
(***************************************************************************)
Frames ==
    [event : Lists, curr : Nodes \union {NULL}, storage : Nodes \union {NULL},
     running : BOOLEAN, called : Seq(Nodes),
     began : Seq(Nodes), owed : SUBSET Nodes, acts : 0..MaxActs]

Top == Head(stack)

WithTop(f) == [stack EXCEPT ![1] = f]

\* x comes before y in the sequence s.
Before(s, x, y) == \E i, j \in DOMAIN s : i < j /\ s[i] = x /\ s[j] = y

-----------------------------------------------------------------------------
(* The calls of event.c                                                    *)

mc_event_init(e) == mc_list_init(e)

\* Mutant: the newest callback comes first.
RegisterFirst(e, cb) == mc_list_prepend(e, cb)

mc_event_register(e, cb) == mc_list_append(e, cb)

mc_event_unregister(e, cb) == mc_list_remove(e, cb)

\* mc_event_trigger, up to the first test of the loop.
Entered(e) ==
    [event |-> e, curr |-> head[e], storage |-> mc_list_next(head[e]),
     running |-> FALSE, called |-> <<>>,
     began |-> order[e], owed |-> ToSet(order[e]) \ silent, acts |-> 0]

\* Mutant: the loop of MC_LIST_FOR_EACH, which asks the node it is leaving.
AdvancedUnsafely(f) ==
    LET n == mc_list_next(f.curr)
    IN  [f EXCEPT !.curr = n, !.storage = mc_list_next(n), !.running = FALSE]

\* Mutant: the increment moves on without saving the following node.
AdvancedInPlace(f) == [f EXCEPT !.curr = f.storage, !.running = FALSE]

\* The increment of MC_LIST_FOR_EACH_SAFE.
Advanced(f) ==
    [f EXCEPT !.curr = f.storage, !.storage = mc_list_next(f.storage), !.running = FALSE]

InLoop == stack # <<>> /\ ~Top.running

Invoke ==
    /\ InLoop
    /\ Top.curr # NULL
    /\ Top.curr \notin silent
    /\ stack' = WithTop([Top EXCEPT !.running = TRUE, !.acts = 0,
                                    !.called = Append(@, Top.curr)])
    /\ UNCHANGED <<heap, order, silent>>

SkipSilent ==
    /\ InLoop
    /\ Top.curr \in silent
    /\ stack' = WithTop(Advanced(Top))
    /\ UNCHANGED <<heap, order, silent>>

Return ==
    /\ stack # <<>>
    /\ Top.running
    /\ stack' = WithTop(Advanced(Top))
    /\ UNCHANGED <<heap, order, silent>>

Finish ==
    /\ InLoop
    /\ Top.curr = NULL
    /\ stack' = Tail(stack)
    /\ UNCHANGED <<heap, order, silent>>

-----------------------------------------------------------------------------
(* The program: its main loop when no trigger is in progress, otherwise    *)
(* the callback that runs.                                                 *)

InControl == stack # <<>> => Top.running /\ Top.acts < MaxActs

\* The stack after one call by the running callback.
Counted(s) == IF s = <<>> THEN s ELSE [s EXCEPT ![1].acts = @ + 1]

\* A pass owes nothing to a callback that left its event, or lost its function,
\* before its turn.
Released(E, cb) ==
    [i \in DOMAIN stack |->
        IF stack[i].event \in E /\ cb \notin ToSet(stack[i].called)
        THEN [stack[i] EXCEPT !.owed = @ \ {cb}]
        ELSE stack[i]]

\* cb is the node a pass in progress has saved to visit next.
SavedAsNext(cb) == \E i \in DOMAIN stack : stack[i].storage = cb

CalledInPass(cb) == \E i \in DOMAIN stack : cb \in ToSet(stack[i].called)

\* mc_callback_init, with or without a function; the node is left alone, so that
\* it may be a listener.
CallbackInit(cb, func) ==
    /\ InControl
    /\ silent' = IF func THEN silent \ {cb} ELSE silent \union {cb}
    /\ stack' = Counted(IF func THEN stack ELSE Released(Lists, cb))
    /\ UNCHANGED <<heap, order>>

Register(e, cb) ==
    /\ InControl
    /\ Loose(cb)
    /\ mc_event_register(e, cb)
    /\ order' = [order EXCEPT ![e] = Append(@, cb)]
    /\ stack' = Counted(stack)
    /\ UNCHANGED silent

Unregister(e, cb) ==
    /\ InControl
    /\ In(e, cb)
    /\ mc_event_unregister(e, cb)
    /\ order' = [order EXCEPT ![e] = RemoveAt(@, Pos(e, cb))]
    /\ stack' = Counted(Released({e}, cb))
    /\ UNCHANGED silent

\* Unregistering what is not registered, in the cases mc_list_remove guards.
UnregisterStranger(e, cb) ==
    /\ InControl
    /\ ~In(e, cb)
    /\ order[e] = <<>> \/ prev[cb] = NULL
    /\ mc_event_unregister(e, cb)
    /\ stack' = Counted(stack)
    /\ UNCHANGED <<order, silent>>

Trigger(e) ==
    /\ InControl
    /\ Len(stack) < MaxDepth
    /\ stack' = <<Entered(e)>> \o Counted(stack)
    /\ UNCHANGED <<heap, order, silent>>

\* That no callback initializes an event is a discipline of the callers.
ReInit(e) ==
    /\ stack = <<>>
    /\ mc_event_init(e)
    /\ order' = [order EXCEPT ![e] = <<>>]
    /\ UNCHANGED <<stack, silent>>

Init ==
    /\ head = [l \in Lists |-> NULL]
    /\ tail = [l \in Lists |-> NULL]
    /\ count = [l \in Lists |-> 0]
    /\ next = [n \in Nodes |-> NULL]
    /\ prev = [n \in Nodes |-> NULL]
    /\ order = [l \in Lists |-> <<>>]
    /\ stack = <<>>
    /\ silent = Late

\* The code of mc_event_trigger, which runs on once it has control.
Pass == Invoke \/ SkipSilent \/ Return \/ Finish

(***************************************************************************)
(* What event.c needs of the callbacks, and does not check: nobody is      *)
(* unregistered while a pass in progress has saved it as its next          *)
(* listener, nobody is registered again while a pass in progress has       *)
(* already called it, and no event is initialized while any pass is in     *)
(* progress.  A callback may unregister itself, any listener already       *)
(* called, any listener further down, and trigger any event.               *)
(***************************************************************************)
Next ==
    \/ Pass
    \/ \E cb \in Late, func \in BOOLEAN : CallbackInit(cb, func)
    \/ \E e \in Lists :
        \/ ReInit(e)
        \/ Trigger(e)
        \/ \E cb \in Nodes :
            \/ ~CalledInPass(cb) /\ Register(e, cb)
            \/ ~SavedAsNext(cb) /\ Unregister(e, cb)
            \/ UnregisterStranger(e, cb)

\* The C program counter moves: a trigger in progress runs on, and a callback,
\* which makes at most MaxActs calls, returns.
Spec == Init /\ [][Next]_vars /\ WF_vars(Pass)

-----------------------------------------------------------------------------
(* Properties                                                              *)

TypeOK ==
    /\ head \in [Lists -> Nodes \union {NULL}]
    /\ tail \in [Lists -> Nodes \union {NULL}]
    /\ count \in [Lists -> Nat]
    /\ next \in [Nodes -> Nodes \union {NULL}]
    /\ prev \in [Nodes -> Nodes \union {NULL}]
    /\ order \in [Lists -> Seq(Nodes)]
    /\ stack \in Seq(Frames)
    /\ silent \subseteq Nodes
    /\ Len(stack) <= MaxDepth

\* However callbacks register, unregister and trigger while passes are in
\* progress, every pass calls the listeners it owes a call once each and in the
\* order of registration, calls no callback twice, and has called them all when
\* its loop ends (event.c:41-52).
ServedInOrder ==
    \A i \in DOMAIN stack :
        LET f == stack[i]
        IN  /\ IsInjective(f.called)
            /\ \A x, y \in f.owed :
                    Before(f.began, x, y) /\ y \in ToSet(f.called) => Before(f.called, x, y)
            /\ ~f.running /\ f.curr = NULL => f.owed \subseteq ToSet(f.called)

\* The node a pass will visit, saved before user code ran, is still a listener
\* of its event when it is visited: no callback runs after it was unregistered.
NextIsListener ==
    \A i \in DOMAIN stack :
        LET f == stack[i]
        IN  /\ f.storage # NULL => In(f.event, f.storage)
            /\ ~f.running /\ f.curr # NULL => In(f.event, f.curr)

\* Every trigger ends, the nested ones included.
PassEnds == stack # <<>> ~> stack = <<>>

\* Events use list.c as list.h asks: each step is a call module List allows, so
\* what is shown there of its links holds of the listener lists.
Listeners == INSTANCE List WITH ret <- NULL
ImplementsList == Listeners!Spec

-----------------------------------------------------------------------------
(* Callbacks that rely on the comment at event.c:38-40, "This allows a     *)
(* callback to call 'mc_event_unregister' on itself without breaking the   *)
(* loop logic", and trigger events, and do nothing else.                   *)

DocumentedNext ==
    \/ Pass
    \/ \E cb \in Late : stack = <<>> /\ CallbackInit(cb, TRUE)
    \/ \E e \in Lists :
        \/ Trigger(e)
        \/ \E cb \in Nodes :
            \/ stack = <<>> /\ Register(e, cb)
            \/ stack # <<>> /\ Top.curr = cb /\ Unregister(e, cb)

DocumentedSpec == Init /\ [][DocumentedNext]_vars /\ WF_vars(Pass)
=============================================================================
