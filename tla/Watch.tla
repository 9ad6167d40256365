------------------------------- MODULE Watch -------------------------------
(***************************************************************************)
(* EventsLoop and the log tailers of one container: docker's event stream  *)
(* starts and stops tailers, which end, are replaced and take themselves   *)
(* out of the map, while the container and docker itself come and go.      *)
(***************************************************************************)
EXTENDS Integers, Sequences

CONSTANTS
    Ids,                   \* bound: tailers that exist at a time
    MaxLives, MaxRestarts  \* bounds: starts of the container, restarts of docker

ASSUME IdsAssumption == Ids \subseteq Nat \ {0}
ASSUME BoundsAssumption == MaxLives \in Nat \ {0} /\ MaxRestarts \in Nat

VARIABLES
    up, life,   \* the container: does it run, and for which time
    restarts,
    loop,       \* where EventsLoop is
    listed,     \* did it find the container running?
    events,     \* sent by docker events, not yet handled
    missed,     \* history: the container or docker started between list and subscription
    tail,       \* each tailer: where it is, whether cancelled, the life it follows
    reg         \* Docker.tailers of the container (0: none)

boxVars == <<up, life, restarts>>
loopVars == <<loop, listed, events, missed>>
vars == <<boxVars, loopVars, tail, reg>>

NoTailer == [at |-> "none", cancelled |-> FALSE, life |-> 0]

Init ==
    /\ up \in BOOLEAN /\ life = 1 /\ restarts = 0
    /\ loop = "list" /\ listed = FALSE /\ events = <<>> /\ missed = FALSE
    /\ tail = [t \in Ids |-> NoTailer] /\ reg = 0

\* Nothing keeps docker logs -f from ending: it is killed, its container has stopped or
\* its stream is broken.
Ending(t) ==
    tail[t].at = "tails" /\ (tail[t].cancelled \/ ~up \/ tail[t].life # life)

\* Followers whose stream has ended notice before the container starts again, and
\* within the back-off of EventsLoop.
Settled == \A t \in Ids : ~Ending(t)

\* Between the list of running containers and the subscription.
InGap == loop \in {"attach", "connect"}

Sent(e) == IF loop = "watch" THEN events \o e ELSE events

-----------------------------------------------------------------------------
(* startTailer, stopTailer, the tailer's goroutine                         *)

\* Mutant: a registered tailer is taken for a live one.
AnyRegistered == reg # 0

StillLive == reg # 0 /\ tail[reg].at = "tails"

StartTailer ==
    \/ StillLive /\ UNCHANGED <<tail, reg>>
    \/ /\ ~StillLive
       /\ \E t \in Ids :
            /\ tail[t].at = "none"
            /\ tail' = [tail EXCEPT ![t] = [at |-> "tails", cancelled |-> FALSE, life |-> life]]
            /\ reg' = t

StopTailer ==
    /\ tail' = IF reg = 0 THEN tail ELSE [tail EXCEPT ![reg].cancelled = TRUE]
    /\ reg' = 0

TailEnds(t) ==
    /\ Ending(t)
    /\ tail' = [tail EXCEPT ![t].at = "done"]
    /\ UNCHANGED <<boxVars, loopVars, reg>>

\* Mutants: a tailer takes whatever is registered out of the map, or nothing.
Unregistered(t) == 0
StillRegistered(t) == reg

\* Only the registration that is still its own.
OwnUnregistered(t) == IF reg = t THEN 0 ELSE reg

TailCleansUp(t) ==
    /\ tail[t].at = "done"
    /\ reg' = OwnUnregistered(t)
    /\ tail' = [tail EXCEPT ![t] = NoTailer]
    /\ UNCHANGED <<boxVars, loopVars>>

-----------------------------------------------------------------------------
(* EventsLoop                                                              *)

Lists ==
    /\ loop = "list" /\ Settled
    /\ listed' = up /\ missed' = FALSE
    /\ loop' = "attach"
    /\ UNCHANGED <<boxVars, events, tail, reg>>

Attaches ==
    /\ loop = "attach"
    /\ IF listed THEN StartTailer ELSE UNCHANGED <<tail, reg>>
    /\ loop' = "connect" /\ listed' = FALSE
    /\ UNCHANGED <<boxVars, events, missed>>

Connects ==
    /\ loop = "connect"
    /\ loop' = "watch"
    /\ UNCHANGED <<boxVars, listed, events, missed, tail, reg>>

Handles ==
    /\ loop = "watch" /\ events # <<>>
    /\ IF Head(events) = "start" THEN StartTailer ELSE StopTailer
    /\ events' = Tail(events)
    /\ UNCHANGED <<boxVars, loop, listed, missed>>

StreamEnds ==
    /\ loop = "watch"
    /\ loop' = "backoff" /\ events' = <<>>
    /\ UNCHANGED <<boxVars, listed, missed, tail, reg>>

BacksOff ==
    /\ loop = "backoff"
    /\ loop' = "list"
    /\ UNCHANGED <<boxVars, listed, events, missed, tail, reg>>

-----------------------------------------------------------------------------
(* The container and docker                                                *)

BoxStarts ==
    /\ ~up /\ life < MaxLives /\ Settled
    /\ up' = TRUE /\ life' = life + 1
    /\ events' = Sent(<<"start">>)
    /\ missed' = (missed \/ InGap)
    /\ UNCHANGED <<restarts, loop, listed, tail, reg>>

\* By itself, or killed; every signal that the project sends is a fatal one.
BoxEnds ==
    /\ up
    /\ up' = FALSE
    /\ \E e \in {<<"die">>, <<"kill", "die">>} : events' = Sent(e)
    /\ UNCHANGED <<life, restarts, loop, listed, missed, tail, reg>>

\* All streams break; the containers may survive.
DockerRestarts ==
    /\ restarts < MaxRestarts
    /\ restarts' = restarts + 1
    /\ up' \in {up, FALSE}
    /\ tail' = [t \in Ids |-> [tail[t] EXCEPT !.life = 0]]
    /\ loop' = IF loop = "watch" THEN "backoff" ELSE loop
    /\ events' = <<>>
    /\ missed' = (missed \/ InGap)
    /\ UNCHANGED <<life, listed, reg>>

LoopStep == Lists \/ Attaches \/ Connects \/ Handles \/ BacksOff

Next ==
    \/ LoopStep \/ StreamEnds
    \/ \E t \in Ids : TailEnds(t) \/ TailCleansUp(t)
    \/ BoxStarts \/ BoxEnds \/ DockerRestarts

Spec == Init /\ [][Next]_vars

\* Goroutines run on, and a docker logs that can end does.
FairSpec ==
    Spec /\ WF_vars(LoopStep) /\ \A t \in Ids : WF_vars(TailEnds(t) \/ TailCleansUp(t))

-----------------------------------------------------------------------------
(* Properties                                                              *)

Kinds == {"start", "die", "kill"}

TypeOK ==
    /\ up \in BOOLEAN /\ life \in 1..MaxLives /\ restarts \in 0..MaxRestarts
    /\ loop \in {"list", "attach", "connect", "watch", "backoff"}
    /\ listed \in BOOLEAN /\ missed \in BOOLEAN
    /\ events \in Seq(Kinds)
    /\ tail \in [Ids -> [at : {"none", "tails", "done"}, cancelled : BOOLEAN, life : 0..MaxLives]]
    /\ reg \in Ids \cup {0} /\ (reg # 0 => tail[reg].at # "none")

Tails(t) == tail[t].at = "tails" /\ ~tail[t].cancelled

\* A tailer that is not cancelled is the registered one: the next die or kill event stops
\* it, and there are never two, which would announce every line twice ("avoid clobbering a
\* fresh tailer that replaced us").
OneTailer == \A t \in Ids : Tails(t) => reg = t

\* A container that goes on running while the event stream lasts gets a tailer and keeps
\* it, whatever went before - unless it, or docker, started between list and subscription.
Followed == reg # 0 /\ Tails(reg) /\ ~Ending(reg)

RunningIsFollowed == <>[](up /\ loop = "watch" /\ ~missed) => <>[]Followed
=============================================================================
