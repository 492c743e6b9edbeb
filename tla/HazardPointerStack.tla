------------------------- MODULE HazardPointerStack -------------------------
(***************************************************************************)
(* lockfree_stack of "Chapter 7 - Reclaim leaked nodes using hazard            *)
(* pointers.cpp".  A pop publishes the node it is going to read in its slot of  *)
(* hazard_pointer_arr; whoever has popped a node deletes it only when no slot   *)
(* names it, and otherwise leaves it in nodes_to_reclaim for a later pop.       *)
(*                                                                          *)
(* A data_to_reclaim is the node it holds, and nodes_to_reclaim the set of      *)
(* them: add_to_reclaim_list touches nothing but its own record until its       *)
(* exchange succeeds, and the order of the list is no matter.                  *)
(***************************************************************************)
EXTENDS StackNodes

CONSTANTS NoThread,   \* the default-constructed thread::id
          Outsider,   \* a thread that uses another stack
          MaxHazard,  \* max_hazard_pointers
          Elsewhere   \* the slots outsiders may have: hazard_pointer_arr is global

ASSUME NobodyIsNoThread == NoThread \notin Thread \cup {Outsider} /\ Outsider \notin Thread
ASSUME SomeSlots        == MaxHazard \in Nat \ {0} /\ Elsewhere \subseteq 1 .. MaxHazard

VARIABLES owner,      \* hazard_pointer_arr[i].id
          pointer,    \* hazard_pointer_arr[i].pointer
          slot,       \* each thread's thread_local hp_owner, 0 before it has one
          i,          \* the loop variable of hp_owner's constructor, and of
                      \* outstanding_hazard_pointers_for
          reclaim,    \* nodes_to_reclaim
          rest        \* delete_nodes_with_no_hazards: the nodes after current

hazards == <<owner, pointer, slot, i>>
lists   == <<reclaim, rest>>
vars    == <<stackVars, hazards, lists>>

Slot == 1 .. MaxHazard
PCs  == {"idle", "push", "own", "load", "publish", "recheck", "read", "exchange", "clear",
         "swap", "scan", "keep", "delete", "list", "rescan", "rekeep", "redelete"}

Init == /\ StackInit
        /\ \E taken \in SUBSET Elsewhere :
              owner = [s \in Slot |-> IF s \in taken THEN Outsider ELSE NoThread]
        /\ pointer = [s \in Slot |-> NoNode]
        /\ slot = [t \in Thread |-> 0]
        /\ i = [t \in Thread |-> 1]
        /\ reclaim = {}
        /\ rest = [t \in Thread |-> {}]

-----------------------------------------------------------------------------
(* get_hazard_pointer_for_current_thread() *)

CallPop(t) ==
    /\ pc[t] = "idle"
    /\ Goto(t, IF slot[t] = 0 THEN "own" ELSE "load")
    /\ UNCHANGED <<head, nodes, mine, popping, stack, hazards, lists>>

\* The constructor of hp_owner: slot i is free.
Own(t) ==
    /\ pc[t] = "own"
    /\ i[t] \in Slot
    /\ owner[i[t]] = NoThread
    /\ owner' = [owner EXCEPT ![i[t]] = t]
    /\ slot' = [slot EXCEPT ![t] = i[t]]
    /\ i' = [i EXCEPT ![t] = 1]
    /\ Goto(t, "load")
    /\ UNCHANGED <<head, nodes, mine, popping, stack, pointer, lists>>

OwnNext(t) ==
    /\ pc[t] = "own"
    /\ i[t] \in Slot
    /\ owner[i[t]] # NoThread
    /\ i' = [i EXCEPT ![t] = @ + 1]
    /\ UNCHANGED <<stackVars, owner, pointer, slot, lists>>

\* throw runtime_error ("No hazard pointers available").
OwnNone(t) ==
    /\ pc[t] = "own"
    /\ i[t] \notin Slot
    /\ i' = [i EXCEPT ![t] = 1]
    /\ Goto(t, "idle")
    /\ UNCHANGED <<head, nodes, mine, popping, stack, owner, pointer, slot, lists>>

\* The thread ends, and with it its hp_owner: the pointer, then the slot.
Exit(t) ==
    /\ pc[t] = "idle"
    /\ slot[t] # 0
    /\ pointer' = [pointer EXCEPT ![slot[t]] = NoNode]
    /\ owner' = [owner EXCEPT ![slot[t]] = NoThread]
    /\ slot' = [slot EXCEPT ![t] = 0]
    /\ UNCHANGED <<stackVars, i, lists>>

-----------------------------------------------------------------------------
(* pop() *)

\* old_head = head.load ()
LoadHead(t) ==
    /\ pc[t] = "load"
    /\ old' = [old EXCEPT ![t] = head]
    /\ Goto(t, "publish")
    /\ UNCHANGED <<head, nodes, mine, nxt, stack, hazards, lists>>

\* temp = old_head, hp.store (old_head).  From here to the end of the inner loop
\* the slot holds temp.
Publish(t) ==
    /\ pc[t] = "publish"
    /\ pointer' = [pointer EXCEPT ![slot[t]] = old[t]]
    /\ Goto(t, "recheck")
    /\ UNCHANGED <<head, nodes, mine, popping, stack, owner, slot, i, lists>>

\* Mutant: head is not read again once the hazard pointer is set.
NotRechecked(t) ==
    /\ pc[t] = "recheck"
    /\ Goto(t, IF old[t] = NoNode THEN "clear" ELSE "read")
    /\ UNCHANGED <<head, nodes, mine, popping, stack, hazards, lists>>

\* old_head = head.load (), and the two loop conditions that need no exchange.
Recheck(t) ==
    /\ pc[t] = "recheck"
    /\ old' = [old EXCEPT ![t] = head]
    /\ Goto(t, IF head # pointer[slot[t]] THEN "publish"
               ELSE IF head = NoNode THEN "clear" ELSE "read")
    /\ UNCHANGED <<head, nodes, mine, nxt, stack, hazards, lists>>

Exchange(t) == /\ Take(t, "clear") \/ TakeFails(t, "publish")
               /\ UNCHANGED <<hazards, lists>>

\* hp.store (nullptr), and if (old_head).
Clear(t) ==
    /\ pc[t] = "clear"
    /\ pointer' = [pointer EXCEPT ![slot[t]] = NoNode]
    /\ Goto(t, IF old[t] = NoNode THEN "list" ELSE "swap")
    /\ UNCHANGED <<head, nodes, mine, popping, stack, owner, slot, i, lists>>

\* res.swap (old_head->data)
Swap(t) ==
    /\ pc[t] = "swap"
    /\ data' = [data EXCEPT ![old[t]] = NoValue]
    /\ Goto(t, "scan")
    /\ UNCHANGED <<head, next, live, mine, popping, stack, hazards, lists>>

-----------------------------------------------------------------------------
(* outstanding_hazard_pointers_for(old), for the node popped and then for each  *)
(* of the nodes to reclaim.                                                     *)

\* The pop has a node of its own to get rid of, and not yet those of the list.
OwnNode(t) == pc[t] \in {"scan", "keep", "delete"}

Found(t) ==
    /\ pc[t] \in {"scan", "rescan"}
    /\ i[t] \in Slot
    /\ pointer[i[t]] = old[t]
    /\ i' = [i EXCEPT ![t] = 1]
    /\ Goto(t, IF OwnNode(t) THEN "keep" ELSE "rekeep")
    /\ UNCHANGED <<head, nodes, mine, popping, stack, owner, pointer, slot, lists>>

NotHere(t) ==
    /\ pc[t] \in {"scan", "rescan"}
    /\ i[t] \in Slot
    /\ pointer[i[t]] # old[t]
    /\ IF i[t] = MaxHazard
       THEN /\ i' = [i EXCEPT ![t] = 1]
            /\ Goto(t, IF OwnNode(t) THEN "delete" ELSE "redelete")
       ELSE /\ i' = [i EXCEPT ![t] = @ + 1]
            /\ UNCHANGED pc
    /\ UNCHANGED <<head, nodes, mine, popping, stack, owner, pointer, slot, lists>>

\* Done with old: on to the nodes of the list, to the next of them, or back to the
\* caller.
Advance(t, nodesLeft) ==
    IF OwnNode(t)
    THEN /\ old' = [old EXCEPT ![t] = NoNode]
         /\ Goto(t, "list")
         /\ UNCHANGED rest
    ELSE IF nodesLeft = {}
    THEN /\ old' = [old EXCEPT ![t] = NoNode]
         /\ Goto(t, "idle")
         /\ UNCHANGED rest
    ELSE \E n \in nodesLeft :
            /\ old' = [old EXCEPT ![t] = n]
            /\ rest' = [rest EXCEPT ![t] = nodesLeft \ {n}]
            /\ Goto(t, "rescan")

\* Mutant: a store to nodes_to_reclaim.
ListReplaced(t) ==
    /\ pc[t] \in {"keep", "rekeep"}
    /\ reclaim' = {old[t]}
    /\ Advance(t, rest[t])
    /\ UNCHANGED <<head, nodes, mine, nxt, stack, hazards>>

\* reclaim_later(old), or add_to_reclaim_list(current).
Keep(t) ==
    /\ pc[t] \in {"keep", "rekeep"}
    /\ reclaim' = reclaim \cup {old[t]}
    /\ Advance(t, rest[t])
    /\ UNCHANGED <<head, nodes, mine, nxt, stack, hazards>>

\* delete old_head, or delete current.
DeleteNode(t) ==
    /\ pc[t] \in {"delete", "redelete"}
    /\ Delete({old[t]})
    /\ Advance(t, rest[t])
    /\ UNCHANGED <<head, mine, nxt, stack, hazards, reclaim>>

\* nodes_to_reclaim.exchange (nullptr).  Mutant: a load.
ListShared(t) ==
    /\ pc[t] = "list"
    /\ Advance(t, reclaim)
    /\ UNCHANGED <<head, nodes, mine, nxt, stack, hazards, reclaim>>

TakeList(t) ==
    /\ pc[t] = "list"
    /\ reclaim' = {}
    /\ Advance(t, reclaim)
    /\ UNCHANGED <<head, nodes, mine, nxt, stack, hazards>>

Pop(t) == \/ Own(t) \/ OwnNext(t) \/ OwnNone(t)
          \/ LoadHead(t) \/ Publish(t) \/ Recheck(t)
          \/ (ReadNext(t) /\ UNCHANGED <<hazards, lists>>)
          \/ Exchange(t) \/ Clear(t) \/ Swap(t)
          \/ Found(t) \/ NotHere(t) \/ Keep(t) \/ DeleteNode(t) \/ TakeList(t)

Next == \E t \in Thread : \/ (Push(t) /\ UNCHANGED <<hazards, lists>>)
                          \/ CallPop(t) \/ Pop(t) \/ Exit(t)

Spec == Init /\ [][Next]_vars

-----------------------------------------------------------------------------
(* Properties *)

\* Every variable stays in its range, a thread owns the slot it uses, and a pop
\* only returns the data of a node that has some.
TypeOK == /\ StackTypeOK
          /\ pc \in [Thread -> PCs]
          /\ owner \in [Slot -> Thread \cup {NoThread, Outsider}]
          /\ pointer \in [Slot -> Nodes]
          /\ slot \in [Thread -> Slot \cup {0}]
          /\ i \in [Thread -> 1 .. MaxHazard + 1]
          /\ reclaim \subseteq Node
          /\ rest \in [Thread -> SUBSET Node]
          /\ \A t \in Thread : /\ slot[t] # 0 => owner[slot[t]] = t
                               /\ pc[t] = "swap" => data[old[t]] \in Value

\* The node thread t has popped, or is looking at in its part of the list.
Claimed(t) ==
    IF pc[t] \in {"clear", "swap", "scan", "keep", "delete", "rescan", "rekeep", "redelete"}
    THEN {old[t]} \ {NoNode} ELSE {}

\* A pop reads old_head->next, and whoever claims a node uses it, only while the
\* node is allocated (so none is deleted twice): "check if other hazard pointer
\* referencing the node" (line 33) is enough, though the slots are read one by one
\* while they change.
NoUseAfterFree ==
    /\ Linked \subseteq live
    /\ \A t \in Thread : /\ pc[t] = "read" => old[t] \in live
                         /\ Claimed(t) \cup rest[t] \subseteq live
    /\ reclaim \subseteq live

\* No node leaks: an allocated node is on the stack, in a call, or in
\* nodes_to_reclaim, where the next pop finds it.
NoLeak ==
    live \subseteq Linked \cup reclaim
                   \cup UNION {Claimed(t) \cup rest[t] \cup {mine[t]} : t \in Thread}

-----------------------------------------------------------------------------
(* What a pop has found, once it has taken head away, or found it null.  The two *)
(* stacks are shown to be atomic ones in MCReclaimingStacks.                      *)

Result(t) == IF pc[t] = "clear" /\ old[t] = NoNode THEN "empty"
             ELSE IF pc[t] \in {"clear", "swap"} THEN data[old[t]]
             ELSE "undecided"
=============================================================================
