------------------------------ MODULE TabMesh -------------------------------
(***************************************************************************)
(* Which tabs of the browser know of which: every tab announces itself on  *)
(* one BroadcastChannel, answers who joins, pings every five seconds, and  *)
(* keeps a registry of the others, from which it drops who says goodbye    *)
(* and who was not heard of for fifteen seconds.  Admin and Docusaurus     *)
(* tabs run the full script; the tabs of other sites run a light one that  *)
(* drops nobody by itself and, when killed, asks the browser to close it.  *)
(*                                                                         *)
(* A channel delivers to each listener in the order of sending; what a tab *)
(* ignores is not put in its inbox.  Time is the age of what was heard: 0  *)
(* is now, Old is more than fifteen seconds.  navigate and inspect change  *)
(* no registry, except that the target of a navigate answers with its      *)
(* state.  The registry of a light tab serves its own navigateTo only, and *)
(* that of a tab that is gone nobody: neither is kept here.                *)
(***************************************************************************)
EXTENDS Integers, Sequences, FiniteSets

CONSTANTS
    Tabs,     \* the tabs, each with the id of one page load
    Light,    \* those that run _tab_mesh_light.html
    Old,      \* the age at which an entry is pruned (_MESH_PRUNE_TIMEOUT)
    MaxQueue  \* bound of the model: a tab's own messages under way when its timer fires

ASSUME MeshAssumption ==
    /\ Light \subseteq Tabs
    /\ Old \in Nat \ {0} /\ MaxQueue \in Nat \ {0}

VARIABLES
    status,   \* [tab -> new, open, killed or gone]
    inbox,    \* [tab -> the messages not yet handled]
    registry  \* [tab -> [tab -> the age of lastSeen in its registry, or Never]]

meshVars == <<status, inbox, registry>>

Never == -1
Ages  == 0..Old
Types == {"join", "roster", "ping", "state", "leave", "kill"}

Running(t)   == status[t] = "open"
Full(t)      == t \notin Light
Knows(v, x)  == registry[v][x] # Never

MeshInit ==
    /\ status = [t \in Tabs |-> "new"]
    /\ inbox = [t \in Tabs |-> << >>]
    /\ registry = [t \in Tabs |-> [x \in Tabs |-> Never]]

-----------------------------------------------------------------------------
(* Sending: a killed tab has closed its channel, and nobody hears itself.  *)

Hears(v, type) == Running(v) /\ (Full(v) \/ type = "join")

\* The inboxes after t has sent to everybody, given those before.
After(t, type, boxes) ==
    [v \in Tabs |-> IF v = t \/ ~Hears(v, type) THEN boxes[v]
                    ELSE Append(boxes[v], [type |-> type, id |-> t, age |-> 0])]

Broadcast(t, type) == inbox' = After(t, type, inbox)

\* Bounds of the model: a tab's timer fires when less than MaxQueue of its
\* messages are under way, the user acts when none of anybody's is.
Pending(v, t) == {i \in DOMAIN inbox[v] : inbox[v][i].id = t}
Room(t) == \A v \in Tabs : Cardinality(Pending(v, t)) < MaxQueue
Quiet   == \A v \in Tabs : inbox[v] = << >>

\* _meshInit: the tab joins (that it is in its own registry is left out).
Open(t) ==
    /\ status[t] = "new"
    /\ status' = [status EXCEPT ![t] = "open"]
    /\ Broadcast(t, "join")
    /\ UNCHANGED registry

\* Mutant: an entry that timed out is marked, and stays.
PrunedMarks(t) == [x \in Tabs |-> IF registry[t][x] = Old THEN Old + 1 ELSE registry[t][x]]

\* _meshPruneRegistry.
Pruned(t) == [x \in Tabs |-> IF registry[t][x] = Old THEN Never ELSE registry[t][x]]

\* Mutant: a ping only announces.
SendPingOnly(t) ==
    /\ Running(t) /\ Room(t)
    /\ Broadcast(t, "ping")
    /\ UNCHANGED <<status, registry>>

\* _meshSendPing; the light script pings and prunes nobody.
SendPing(t) ==
    /\ Running(t) /\ Room(t)
    /\ Broadcast(t, "ping")
    /\ registry' = IF Full(t) THEN [registry EXCEPT ![t] = Pruned(t)] ELSE registry
    /\ UNCHANGED status

\* _meshSendState: the hash has changed, or a navigate was for this tab.
SendState(t) ==
    /\ Running(t) /\ Quiet
    /\ Broadcast(t, "state")
    /\ UNCHANGED <<status, registry>>

\* beforeunload: goodbye, while the page and its timer go on until the next
\* page has come, or for good when the user stays.
BeforeUnload(t) ==
    /\ Running(t) /\ Quiet
    /\ Broadcast(t, "leave")
    /\ UNCHANGED <<status, registry>>

\* The page is gone: unloaded, or with no goodbye when it crashes.
Gone(t) ==
    /\ status[t] \in {"open", "killed"}
    /\ status' = [status EXCEPT ![t] = "gone"]
    /\ inbox' = [inbox EXCEPT ![t] = << >>]
    /\ registry' = [registry EXCEPT ![t] = [x \in Tabs |-> Never]]

\* _meshKill: only the target minds the message; who kills forgets it at once.
Kill(t, x) ==
    /\ Running(t) /\ Knows(t, x) /\ Quiet
    /\ inbox' = IF ~Running(x) THEN inbox
                ELSE [inbox EXCEPT ![x] = Append(@, [type |-> "kill", id |-> t, age |-> 0])]
    /\ registry' = [registry EXCEPT ![t][x] = Never]
    /\ UNCHANGED status

-----------------------------------------------------------------------------
(* _meshHandleMessage, one message at a time.                              *)

Rest(t) == [inbox EXCEPT ![t] = Tail(@)]
Takes(t, types) == Running(t) /\ inbox[t] # << >> /\ Head(inbox[t]).type \in types
Enter(t, msg) == registry' = [registry EXCEPT ![t][msg.id] = msg.age]

\* A join enters the sender and is answered with a roster, to everybody.
HandleJoin(t) ==
    /\ Takes(t, {"join"})
    /\ IF Full(t) THEN Enter(t, Head(inbox[t])) ELSE UNCHANGED registry
    /\ inbox' = After(t, "roster", Rest(t))
    /\ UNCHANGED status

\* Mutant: a ping only renews who is known.
HandlePingRenews(t) ==
    LET msg == Head(inbox[t]) IN
    /\ Takes(t, {"roster", "ping", "state"})
    /\ IF msg.type # "roster" /\ ~Knows(t, msg.id) THEN UNCHANGED registry ELSE Enter(t, msg)
    /\ inbox' = Rest(t)
    /\ UNCHANGED status

\* roster and ping enter who is not known, a state only renews who is.
HandlePresence(t) ==
    LET msg == Head(inbox[t]) IN
    /\ Takes(t, {"roster", "ping", "state"})
    /\ IF msg.type = "state" /\ ~Knows(t, msg.id) THEN UNCHANGED registry ELSE Enter(t, msg)
    /\ inbox' = Rest(t)
    /\ UNCHANGED status

HandleLeave(t) ==
    /\ Takes(t, {"leave"})
    /\ registry' = [registry EXCEPT ![t][Head(inbox[t]).id] = Never]
    /\ inbox' = Rest(t)
    /\ UNCHANGED status

\* Mutant: the killed tab closes its channel without a goodbye.
HandleKillSilently(t) ==
    /\ Takes(t, {"kill"})
    /\ status' = [status EXCEPT ![t] = IF Full(t) THEN "killed" ELSE "gone"]
    /\ inbox' = [inbox EXCEPT ![t] = << >>]
    /\ registry' = [registry EXCEPT ![t] = [x \in Tabs |-> Never]]

\* _meshHandleKill: the timer is stopped, the goodbye sent, the channel closed.
\* A light tab says goodbye and asks to be closed, which the browser does only
\* for a window a script has opened; else the tab lives on.
HandleKill(t) ==
    LET sent == After(t, "leave", Rest(t)) IN
    /\ Takes(t, {"kill"})
    /\ \/ /\ status' = [status EXCEPT ![t] = IF Full(t) THEN "killed" ELSE "gone"]
          /\ inbox' = [sent EXCEPT ![t] = << >>]
          /\ registry' = [registry EXCEPT ![t] = [x \in Tabs |-> Never]]
       \/ /\ ~Full(t)
          /\ inbox' = sent
          /\ UNCHANGED <<status, registry>>

Handle(t) == HandleJoin(t) \/ HandlePresence(t) \/ HandleLeave(t) \/ HandleKill(t)

\* Time passes; nothing is older than Old, and that of a goodbye or a kill is
\* asked by nobody.
Tick ==
    LET Older(a) == IF a \in 0..(Old - 1) THEN a + 1 ELSE a
        Aged(msg) == IF msg.type \in {"leave", "kill"} THEN msg
                     ELSE [msg EXCEPT !.age = Older(@)]
    IN
    /\ registry' = [t \in Tabs |-> [x \in Tabs |-> Older(registry[t][x])]]
    /\ inbox' = [t \in Tabs |-> [i \in DOMAIN inbox[t] |->
                                   Aged(inbox[t][i])]]
    /\ UNCHANGED status

MeshNext ==
    \/ Tick
    \/ \E t \in Tabs :
         \/ Open(t) \/ SendPing(t) \/ SendState(t)
         \/ BeforeUnload(t) \/ Gone(t) \/ Handle(t)
         \/ \E x \in Tabs : Kill(t, x)

\* Time goes on, an event loop handles its messages, and an interval fires again
\* and again (strongly: the bound on the inboxes is no part of the code).
MeshFairness ==
    /\ WF_meshVars(Tick)
    /\ \A t \in Tabs : WF_meshVars(Handle(t)) /\ SF_meshVars(SendPing(t))

MeshSpec == MeshInit /\ [][MeshNext]_meshVars /\ MeshFairness

-----------------------------------------------------------------------------
(* Properties.                                                             *)

\* Type invariant.
MeshTypeOK ==
    /\ status \in [Tabs -> {"new", "open", "killed", "gone"}]
    /\ registry \in [Tabs -> [Tabs -> Ages \cup {Never}]]
    /\ inbox \in [Tabs -> Seq([type : Types, id : Tabs, age : Ages])]

\* A killed tab stays out: a full registry that holds it, because pings of it
\* were still under way when it was dropped, is about to hear its goodbye, which
\* nothing of the tab can follow (_tab_mesh.html:392-412).
KilledIsOut ==
    \A v, x \in Tabs :
        (status[x] = "killed" /\ Full(v) /\ Running(v) /\ Knows(v, x)) =>
            \E i \in DOMAIN inbox[v] :
                inbox[v][i].type = "leave" /\ inbox[v][i].id = x

\* Who is gone is forgotten for good by every full tab that stays, with or
\* without a goodbye, and even if its timer fired after the goodbye
\* (_tab_mesh.html:118-136, 275-286).
GoneIsForgotten ==
    \A v, x \in Tabs \ Light :
        <>[](status[x] \in {"killed", "gone"} => (~Running(v) \/ ~Knows(v, x)))

\* Two tabs that stay open know of each other again and again, whoever opened
\* first, however late their pings were (a hidden tab's timer is slowed down and
\* its entry pruned), and whatever goodbye was taken back.
OpenTabsMeet ==
    \A v \in Tabs \ Light, x \in Tabs :
        v # x => []<>((status[v] = "open" /\ status[x] = "open") => Knows(v, x))
=============================================================================
