------------------------- MODULE RustSyncReadiness --------------------------
(***************************************************************************)
(* The two threads of RustSync, with what makes thread B drive a slot: the *)
(* kernel's side of the slot's socket, the interest registered for it, and *)
(* the event the poll holds.  mio is edge-triggered: an event is raised    *)
(* when a socket becomes ready for its interest, or is found ready when it *)
(* is registered, and is gone once poll has returned it.  B drives a slot  *)
(* only on its event, however often the capped poll returns without one.   *)
(*                                                                         *)
(* Every step that changes a variable of RustSync is a step of RustSync,   *)
(* under a stronger guard: what holds there holds here.                    *)
(***************************************************************************)
EXTENDS RustSync

VARIABLES
  net,       \* "none", "dialing", "open", "blocked" (no room to write), "room" (again),
             \* "half" or "whole" (of a response to read), "dead" (broken or closed)
  interest,  \* what the socket is registered for: "none", "readable", "writable"
  edge,      \* slots with an event that poll has not returned yet
  events,    \* slots with an event that poll returned and B has not handled yet
  polled,    \* B is between the return of its poll and its commands
  arming     \* slots driven or changed by a command, and not yet registered again

io == <<net, interest, edge, events, polled, arming>>
readyVars == <<vars, io>>

ReadyTypeOK ==
  /\ net \in [Slot -> {"none", "dialing", "open", "blocked", "room", "half", "whole", "dead"}]
  /\ interest \in [Slot -> {"none", "readable", "writable"}]
  /\ edge \in SUBSET Slot /\ events \in SUBSET Slot /\ arming \in SUBSET Slot
  /\ polled \in BOOLEAN

ReadyInit ==
  /\ Init
  /\ net = [s \in Slot |-> "none"]
  /\ interest = [s \in Slot |-> "none"]
  /\ edge = {} /\ events = {} /\ arming = {} /\ polled = FALSE
-----------------------------------------------------------------------------
(* The kernel and the server. *)

\* A socket in condition n would serve interest i.  A broken one serves both.
Ready(n, i) ==
  \/ i = "writable" /\ n \in {"open", "room", "half", "whole", "dead"}
  \/ i = "readable" /\ n \in {"half", "whole", "dead"}

\* The change of a socket to condition n concerns interest i.
Signals(n, i) ==
  \/ i = "writable" /\ n \in {"open", "room", "dead"}
  \/ i = "readable" /\ n \in {"half", "whole", "dead"}

Becomes(s, n) ==
  /\ net' = [net EXCEPT ![s] = n]
  /\ edge' = IF Signals(n, interest[s]) THEN edge \cup {s} ELSE edge
  /\ UNCHANGED <<vars, interest, events, polled, arming>>

Connects(s) == net[s] = "dialing" /\ Becomes(s, "open")

Drains(s) == net[s] = "blocked" /\ Becomes(s, "room")

\* A response arrives, in two parts at most.
Answers(s) ==
  \/ net[s] = "open" /\ slot[s].wire # <<>> /\ slot[s].resp = "empty" /\ Becomes(s, "half")
  \/ (net[s] = "half" \/ (net[s] = "open" /\ slot[s].wire # <<>>)) /\ Becomes(s, "whole")

\* The connection is refused, reset or closed by the server, at any time.
Breaks(s) == net[s] \notin {"none", "dead"} /\ Becomes(s, "dead")
-----------------------------------------------------------------------------
(* Thread B. *)

\* The interest that submit, on_event and recycle register for a slot.
Want(r) ==
  IF ~r.sock THEN "none" ELSE IF r.state \in {"Connecting", "Sending"} THEN "writable" ELSE "readable"

\* poll returns, with or without events; one that no longer applies is left out.
PollReturns ==
  /\ bPc = "events" /\ ~polled
  /\ polled' = TRUE
  /\ events' = {s \in edge : Ready(net[s], interest[s])}
  /\ edge' = {}
  /\ UNCHANGED <<vars, net, interest, arming>>

\* A new socket is not registered yet; the one it replaces has been closed.
NewSockets ==
  LET new == {s \in Slot : net'[s] # net[s] /\ net'[s] \in {"none", "dialing"}}
  IN /\ interest' = [s \in Slot |-> IF s \in new THEN "none" ELSE interest[s]]
     /\ edge' = edge \ new

\* run, as far as the socket lets it: it writes all of the request or until the
\* socket blocks, and reads until there is nothing to read; retry_or_fail and the
\* redial when it is broken.  The probe of an idle socket that was reset reads the
\* error first, and the end of the stream at its next event.
Drive(s) ==
  \/ /\ slot[s].state \in {"Connecting", "Sending"} /\ net[s] \in {"open", "room"}
     /\ SlotAdvance(s) /\ slot'[s].state = "Receiving"
     /\ net' = [net EXCEPT ![s] = "open"]
  \/ /\ slot[s].state \in {"Connecting", "Sending"} /\ net[s] = "open"
     /\ \/ SlotAdvance(s) /\ slot'[s].state = "Sending"
        \/ slot[s].state = "Sending" /\ UNCHANGED vars
     /\ net' = [net EXCEPT ![s] = "blocked"]
  \/ /\ slot[s].state = "Receiving" /\ net[s] \in {"open", "half"}
     /\ IF net[s] = "half" THEN SlotAdvance(s) ELSE UNCHANGED vars
     /\ net' = [net EXCEPT ![s] = "open"]
  \/ /\ slot[s].state = "Receiving" /\ net[s] = "whole"
     /\ SlotRespond(s)
     /\ net' = [net EXCEPT ![s] = "open"]
  \/ /\ net[s] = "dead"
     /\ SlotError(s) \/ SlotProbe(s)
     /\ net' = [net EXCEPT ![s] = IF slot'[s].sock THEN "dialing" ELSE "none"]
  \/ /\ slot[s].state = "Idle" /\ net[s] = "dead"
     /\ UNCHANGED <<vars, net>>

\* on_event
OnEvent(s) ==
  /\ polled /\ arming = {} /\ s \in events
  /\ Drive(s)
  /\ NewSockets
  /\ events' = events \ {s}
  /\ arming' = {s}
  /\ UNCHANGED polled

\* A bug: a socket that is registered already is not registered again.
ArmFreshOnly(s) ==
  /\ s \in arming
  /\ IF interest[s] = "none"
     THEN /\ interest' = [interest EXCEPT ![s] = Want(slot[s])]
          /\ edge' = IF Ready(net[s], Want(slot[s])) THEN edge \cup {s} ELSE edge
     ELSE UNCHANGED <<interest, edge>>
  /\ arming' = arming \ {s}
  /\ UNCHANGED <<vars, net, events, polled>>

\* ensure_registered, or deregister when there is no socket: the event is raised at
\* once if the socket is ready.
Arm(s) ==
  /\ s \in arming
  /\ interest' = [interest EXCEPT ![s] = Want(slot[s])]
  /\ edge' = IF Ready(net[s], Want(slot[s])) THEN edge \cup {s} ELSE edge \ {s}
  /\ arming' = arming \ {s}
  /\ UNCHANGED <<vars, net, events, polled>>

EventsHandled ==
  /\ polled /\ arming = {} /\ events = {}
  /\ EventsEnd
  /\ polled' = FALSE
  /\ UNCHANGED <<net, interest, edge, events, arming>>

\* One command: a dial, a socket lent again, or a socket dropped.
CommandHandled ==
  /\ arming = {}
  /\ Command
  /\ net' = [s \in Slot |-> IF slot'[s].sock = slot[s].sock THEN net[s]
                            ELSE IF slot'[s].sock THEN "dialing" ELSE "none"]
  /\ NewSockets
  /\ arming' = {s \in Slot : slot'[s] # slot[s]}
  /\ UNCHANGED <<events, polled>>

CommandsHandled == arming = {} /\ CommandsEnd /\ UNCHANGED io
-----------------------------------------------------------------------------
ReadyNext ==
  \/ ThreadA /\ UNCHANGED io
  \/ PollReturns \/ EventsHandled \/ CommandHandled \/ CommandsHandled
  \/ \E s \in Slot : OnEvent(s) \/ Arm(s) \/ Connects(s) \/ Drains(s) \/ Answers(s) \/ Breaks(s)

ReadySpec == ReadyInit /\ [][ReadyNext]_readyVars

Alone(act) == act /\ UNCHANGED io

\* Neither thread stops: their loops never return, and both polls return within a
\* bounded time.  Nothing is assumed of clients, of the timers, of the server, or of
\* connections being accepted.
Fairness ==
  /\ WF_readyVars(Alone(Poll)) /\ WF_readyVars(Alone(DrainBegin)) /\ WF_readyVars(Alone(DrainOne))
  /\ WF_readyVars(Alone(DrainEnd)) /\ WF_readyVars(Alone(TimersBegin)) /\ WF_readyVars(Alone(TimersEnd))
  /\ WF_readyVars(Alone(ClosingEnd))
  /\ \A c \in Conn : WF_readyVars(Alone(Remove(c)))
  /\ WF_readyVars(PollReturns) /\ WF_readyVars(EventsHandled)
  /\ WF_readyVars(CommandHandled) /\ WF_readyVars(CommandsHandled)
  /\ \A s \in Slot : WF_readyVars(OnEvent(s)) /\ WF_readyVars(Arm(s))

\* The server accepts connections, reads requests and answers them, or the connection
\* breaks.
ServerFairness ==
  \A s \in Slot : WF_readyVars(Connects(s)) /\ WF_readyVars(Drains(s)) /\ WF_readyVars(Answers(s))

FairSpec == ReadySpec /\ Fairness
-----------------------------------------------------------------------------
\* No readiness is missed: a socket ready for what its slot waits for has an event to
\* come or returned, or is about to be registered, which raises one.  It is the
\* registration after every step of a slot that gives this, also when a response
\* arrives while the socket is still registered for writing.
NoMissedEdge ==
  \A s \in Slot : Ready(net[s], Want(slot[s])) => s \in edge \cup events \cup arming

\* If the server answers, a batch at inference is answered or abandoned without any
\* help from the timeout: readiness drives every slot to its end, and the handoff
\* there and back never stalls.
PendingResolved ==
  ServerFairness => \A c \in Conn : (pending[c] # NoBatch) ~> (pending[c] = NoBatch)
=============================================================================
