------------------------------ MODULE IoReactor ------------------------------
(***************************************************************************)
(* The single-threaded coroutine engine of the native runtime: the ready   *)
(* queue and its pump, one-shot timers, the table of watched descriptors   *)
(* and the poll that serves it, name lookups on worker threads handed over *)
(* through a list and a self-pipe, and gates.                              *)
(*                                                                         *)
(* A coroutine is a frame.  Between two suspensions it runs without        *)
(* interruption; what runs beside it are the lookup workers, the network   *)
(* and the clock.  One tick of the clock is a millisecond and a deadline   *)
(* is kept as the time left.  The value an operation yields is left out:   *)
(* what matters here is that its frame is resumed, once.                   *)
(***************************************************************************)
EXTENDS Integers, Sequences, FiniteSets, Functions

CONSTANTS
  Frames, Root,   \* the coroutines, and the one the pump is asked to finish
  Fds,            \* descriptor numbers
  None,           \* no frame, no descriptor, no deadline
  Modes,          \* "await": return when Root is done; "wait": quiesce;
                  \* "c": the driver of the C remainder, which has no reactor
  Does,           \* Does[f]: the operations frame f may perform
  Blocking,       \* descriptors left in blocking mode
  MaxOps,         \* MaxOps[f]: how many of them
  MaxDelay,       \* longest delay or receive timeout
  MaxData,        \* pieces of data waiting in one socket
  MaxGen          \* sockets that get the same descriptor number

ASSUME FramesType == IsFiniteSet(Frames) /\ Root \in Frames
ASSUME NoneType == None \notin Frames \cup Fds /\ None \notin Nat
ASSUME BoundsType == MaxDelay \in Nat

VARIABLES
  mode, pc,       \* how the pump was called, and where it is
  rq, running,    \* the ready queue; the frame being stepped
  todo, fresh, over, awaiter,
  timers,         \* newest first: <<frame, time left>>
  ws,             \* the watch table
  seen, at, wait, \* one poll: what it reported, the watch served, time left
  sock, gen, data, eof,
  resolving, jobs, owed, pipe,
  gq, surplus, gateOpen

pump == <<mode, pc, running>>
prog == <<fresh, over, awaiter>>
call == <<seen, at, wait>>
net == <<sock, gen, data, eof>>
dns == <<resolving, jobs, owed, pipe>>
gate == <<gq, surplus, gateOpen>>
vars == <<pump, rq, todo, prog, timers, ws, call, net, dns, gate>>

\* RECV stands for an accept as well: both take one piece of what waits.
Kinds == {"WAIT", "RECV", "RECV_TO", "DNS"}

-----------------------------------------------------------------------------
(* The ready queue.                                                        *)

Entry(f) == [frame |-> f, step |-> "resume"]
Entries(s) == [i \in 1..Len(s) |-> Entry(s[i])]

\* What s has at the places in I, in order.
Nth(I, k) == CHOOSE i \in I : Cardinality({j \in I : j <= i}) = k
Chosen(s, I) == [k \in 1..Cardinality(I) |-> s[Nth(I, k)]]
FramesOf(s) == [i \in 1..Len(s) |-> s[i].frame]

\* Frame f gives up the thread; the queue has got the entries in more.
Suspended(f, more) ==
  /\ running' = None
  /\ pc' = "loop"
  /\ rq' = rq \o more
  /\ todo' = [todo EXCEPT ![f] = @ - 1]
  /\ UNCHANGED mode

May(f, op) == pc = "step" /\ running = f /\ todo[f] > 0 /\ op \in Does[f]

-----------------------------------------------------------------------------
(* Watches and descriptors.                                                *)

Watch(f, fd, kind, left) ==
  [frame |-> f, fd |-> fd, kind |-> kind, left |-> left, active |-> TRUE,
   gen |-> IF fd = None THEN 0 ELSE gen[fd]]

ActiveWatches == {i \in DOMAIN ws : ws[i].active}
Alive(fd) == sock[fd] = "open"
Readable(fd) == data[fd] > 0 \/ eof[fd]
Taken(fd) == [data EXCEPT ![fd] = IF @ > 0 THEN @ - 1 ELSE 0]

\* The entries of the watches in S, in table order, and the table with
\* these watches retired.
Delivered(S) == Entries(FramesOf(Chosen(ws, S)))
RetiredNever(S) == ws
Retired(S) == [i \in DOMAIN ws |-> [ws[i] EXCEPT !.active = @ /\ i \notin S]]

WatchingRecv(fd) == {i \in DOMAIN ws : ws[i].active /\ ws[i].fd = fd
                                         /\ ws[i].kind \in {"RECV", "RECV_TO"}}
Watching(fd) == {i \in DOMAIN ws : ws[i].active /\ ws[i].fd = fd}
DnsWatched == \E i \in DOMAIN ws : ws[i].active /\ ws[i].kind = "DNS"

-----------------------------------------------------------------------------
(* What a frame does when it is stepped.                                   *)

\* Wait for readiness, receive, receive with a timeout, accept: a dead
\* descriptor and a ready one answer at once, and the rest is parked.
WaitOn(f, fd, kind, left) ==
  /\ May(f, kind) /\ mode # "c"
  /\ (kind # "RECV_TO") => (left = None)
  /\ IF ~Alive(fd)
       THEN Suspended(f, <<Entry(f)>>) /\ UNCHANGED <<ws, data>>
     ELSE IF kind # "WAIT" /\ Readable(fd)
       THEN Suspended(f, <<Entry(f)>>) /\ data' = Taken(fd) /\ UNCHANGED ws
     ELSE /\ Suspended(f, <<>>)
          /\ ws' = Append(ws, Watch(f, fd, kind, left))
          /\ UNCHANGED data
  /\ UNCHANGED <<prog, timers, call, sock, gen, eof, dns, gate>>

\* A name that needs no worker (empty, a literal), no pipe or no memory.
ResolveAtOnce(f) ==
  /\ May(f, "DNS") /\ mode # "c"
  /\ Suspended(f, <<Entry(f)>>)
  /\ UNCHANGED <<prog, timers, ws, call, net, dns, gate>>

\* A lookup: the pipe is watched, then a worker is started.  Where no thread
\* can be started the lookup is made on the spot.
Resolve(f) ==
  /\ May(f, "DNS") /\ mode # "c"
  /\ ws' = IF DnsWatched THEN ws ELSE Append(ws, Watch(None, None, "DNS", None))
  /\ \/ Suspended(f, <<>>) /\ resolving' = resolving \cup {f}
     \/ Suspended(f, <<Entry(f)>>) /\ UNCHANGED resolving
  /\ UNCHANGED <<prog, timers, call, net, jobs, owed, pipe, gate>>

Delay(f, left) ==
  /\ May(f, "DELAY")
  /\ timers' = <<[frame |-> f, left |-> left]>> \o timers
  /\ Suspended(f, <<>>)
  /\ UNCHANGED <<prog, ws, call, net, dns, gate>>

\* A released gate lets the caller through.
Park(f) ==
  /\ May(f, "PARK")
  /\ IF ~gateOpen \/ surplus > 0
       THEN /\ Suspended(f, <<Entry(f)>>)
            /\ surplus' = IF gateOpen THEN surplus - 1 ELSE surplus
            /\ UNCHANGED gq
       ELSE Suspended(f, <<>>) /\ gq' = Append(gq, f) /\ UNCHANGED surplus
  /\ UNCHANGED <<prog, timers, ws, call, net, dns, gateOpen>>

\* Calls that do not suspend: the frame goes on.
GoesOn(f) == todo' = [todo EXCEPT ![f] = @ - 1] /\ UNCHANGED pump

Signal(f) ==
  /\ May(f, "SIGNAL") /\ gateOpen
  /\ IF gq = <<>> THEN surplus' = surplus + 1 /\ UNCHANGED <<gq, rq>>
     ELSE /\ gq' = Tail(gq) /\ rq' = Append(rq, Entry(Head(gq)))
          /\ UNCHANGED surplus
  /\ GoesOn(f)
  /\ UNCHANGED <<prog, timers, ws, call, net, dns, gateOpen>>

FreeGate(f) ==
  /\ May(f, "FREE") /\ gateOpen
  /\ rq' = rq \o Entries(gq)
  /\ gq' = <<>> /\ surplus' = 0 /\ gateOpen' = FALSE
  /\ GoesOn(f)
  /\ UNCHANGED <<prog, timers, ws, call, net, dns>>

\* Socket.Close: everybody parked on the descriptor is woken, then the
\* number is given back.
CloseNotify(f, fd) ==
  /\ May(f, "CLOSE") /\ Alive(fd)
  /\ rq' = rq \o Delivered(Watching(fd))
  /\ ws' = Retired(Watching(fd))
  /\ sock' = [sock EXCEPT ![fd] = "closed"]
  /\ data' = [data EXCEPT ![fd] = 0] /\ eof' = [eof EXCEPT ![fd] = FALSE]
  /\ GoesOn(f)
  /\ UNCHANGED <<prog, timers, call, gen, dns, gate>>

\* A library closes the descriptor behind the reactor's back.
CloseUnnoticed(f, fd) ==
  /\ May(f, "DROP") /\ Alive(fd)
  /\ sock' = [sock EXCEPT ![fd] = "dropped"]
  /\ data' = [data EXCEPT ![fd] = 0] /\ eof' = [eof EXCEPT ![fd] = FALSE]
  /\ GoesOn(f)
  /\ UNCHANGED <<rq, prog, timers, ws, call, gen, dns, gate>>

\* The next socket gets the number that Close gave back.
Reopen(f, fd) ==
  /\ May(f, "OPEN") /\ sock[fd] = "closed" /\ gen[fd] < MaxGen
  /\ sock' = [sock EXCEPT ![fd] = "open"]
  /\ gen' = [gen EXCEPT ![fd] = @ + 1]
  /\ GoesOn(f)
  /\ UNCHANGED <<rq, prog, timers, ws, call, data, eof, dns, gate>>

\* A call whose task is dropped readies the new frame and goes on; an
\* awaited one suspends the caller until it is finished.
Spawn(f, g) ==
  /\ May(f, "SPAWN") /\ g \in fresh
  /\ fresh' = fresh \ {g}
  /\ awaiter' = [awaiter EXCEPT ![g] = g]
  /\ rq' = Append(rq, Entry(g))
  /\ GoesOn(f)
  /\ UNCHANGED <<over, timers, ws, call, net, dns, gate>>

Await(f, g) ==
  /\ May(f, "AWAIT") /\ g \in fresh
  /\ fresh' = fresh \ {g}
  /\ awaiter' = [awaiter EXCEPT ![g] = f]
  /\ Suspended(f, <<Entry(g)>>)
  /\ UNCHANGED <<over, timers, ws, call, net, dns, gate>>

\* The end of a body wakes the frame that awaits it; of a detached one, the
\* reaper.  The frame the pump was asked for has nobody.
Finish(f) ==
  /\ pc = "step" /\ running = f
  /\ over' = over \cup {f}
  /\ running' = None /\ pc' = "loop"
  /\ rq' = IF awaiter[f] = None THEN rq
           ELSE IF awaiter[f] = f THEN Append(rq, [frame |-> f, step |-> "reap"])
           ELSE Append(rq, Entry(awaiter[f]))
  /\ UNCHANGED <<mode, todo, fresh, awaiter, timers, ws, call, net, dns, gate>>

Act(f) ==
  \/ \E fd \in Fds, kind \in Kinds \ {"DNS"}, left \in (1..MaxDelay) \cup {None} :
       WaitOn(f, fd, kind, left)
  \/ ResolveAtOnce(f) \/ Resolve(f)
  \/ \E left \in 0..MaxDelay : Delay(f, left)
  \/ Park(f) \/ Signal(f) \/ FreeGate(f)
  \/ \E fd \in Fds : CloseNotify(f, fd) \/ CloseUnnoticed(f, fd) \/ Reopen(f, fd)
  \/ \E g \in Frames : Spawn(f, g) \/ Await(f, g)
  \/ Finish(f)

-----------------------------------------------------------------------------
(* The pump.                                                               *)

RootDone == mode # "wait" /\ Root \in over

Step == /\ pc = "loop" /\ rq # <<>> /\ ~RootDone
        /\ rq' = Tail(rq)
        /\ IF Head(rq).step = "reap" THEN UNCHANGED <<pc, running>>
           ELSE pc' = "step" /\ running' = Head(rq).frame
        /\ UNCHANGED <<mode, todo, prog, timers, ws, call, net, dns, gate>>

\* The emitted pump takes a node off the queue and reads the done flag after
\* that; the C driver reads the flag first.
Stop == /\ pc = "loop" /\ rq # <<>> /\ RootDone
        /\ rq' = IF mode = "c" THEN rq ELSE Tail(rq)
        /\ pc' = "exit"
        /\ UNCHANGED <<mode, running, todo, prog, timers, ws, call, net, dns, gate>>

Due(t) == t.left = 0
DueTimers == {i \in DOMAIN timers : Due(timers[i])}

TimersDue ==
  /\ pc = "loop" /\ rq = <<>> /\ ~RootDone
  /\ DueTimers # {}
  /\ rq' = Entries(FramesOf(Chosen(timers, DueTimers)))
  /\ timers' = Chosen(timers, DOMAIN timers \ DueTimers)
  /\ UNCHANGED <<pump, todo, prog, ws, call, net, dns, gate>>

EarliestForgotten == None
Earliest == IF timers = <<>> THEN None
            ELSE CHOOSE n \in {t.left : t \in Range(timers)} :
                   \A t \in Range(timers) : n <= t.left

\* No timer is due: the retired watches are dropped from the table, and
\* the live ones polled until the earliest timer.
PollStarts ==
  /\ pc = "loop" /\ rq = <<>> /\ ~RootDone
  /\ DueTimers = {}
  /\ ActiveWatches # {}
  /\ ws' = Chosen(ws, ActiveWatches)
  /\ wait' = Earliest
  /\ pc' = "poll"
  /\ UNCHANGED <<mode, running, rq, todo, prog, timers, seen, at, net, dns, gate>>

\* Nothing ready and nothing to wait for.  (With a timer but no watch the
\* pump sleeps, and looks at the timers again.)
Return ==
  /\ pc = "loop" /\ rq = <<>>
  /\ RootDone \/ (timers = <<>> /\ ActiveWatches = {})
  /\ pc' = "exit"
  /\ UNCHANGED <<mode, running, rq, todo, prog, timers, ws, call, net, dns, gate>>

\* What poll reports of a watch, and whether its deadline has passed.
Reports(w) ==
  IF w.kind = "DNS" THEN IF pipe > 0 THEN {"ready"} ELSE {}
  ELSE (IF Alive(w.fd) THEN {} ELSE {"invalid"})
       \cup (IF Readable(w.fd) THEN {"ready"} ELSE {})
Late(w) == IF w.left = 0 THEN {"late"} ELSE {}

PollReturns ==
  /\ pc = "poll"
  /\ wait = 0 \/ \E i \in DOMAIN ws : Reports(ws[i]) # {}
  /\ seen' = [i \in DOMAIN ws |-> Reports(ws[i]) \cup Late(ws[i])]
  /\ at' = 1 /\ wait' = None /\ pc' = "serve"
  /\ UNCHANGED <<mode, running, rq, todo, prog, timers, ws, net, dns, gate>>

Serving(what) == pc = "serve" /\ at \in DOMAIN ws /\ what
Now(flag) == flag \in seen[at]

Deliver ==
  /\ rq' = rq \o Delivered({at})
  /\ ws' = Retired({at})
  /\ at' = at + 1

\* The descriptor was closed unnoticed, or only readiness was asked for, or
\* nothing came before the deadline.
ServeAtOnce ==
  /\ Serving(\/ Now("invalid")
             \/ Now("ready") /\ ws[at].kind = "WAIT"
             \/ ~Now("ready") /\ Now("late"))
  /\ Deliver
  /\ UNCHANGED <<pump, todo, prog, timers, seen, wait, net, dns, gate>>

\* A receive or an accept.  Another watch of the same socket may have taken
\* what poll saw: then this one stays, unless its deadline has passed, and a
\* blocking descriptor holds up the thread.
ServeData ==
  /\ Serving(/\ Now("ready") /\ ~Now("invalid")
             /\ ws[at].kind \in {"RECV", "RECV_TO"})
  /\ ws[at].fd \in Blocking => Readable(ws[at].fd)
  /\ IF Readable(ws[at].fd) THEN Deliver /\ data' = Taken(ws[at].fd)
     ELSE IF Now("late") THEN Deliver /\ UNCHANGED data
     ELSE at' = at + 1 /\ UNCHANGED <<rq, ws, data>>
  /\ UNCHANGED <<pump, todo, prog, timers, seen, wait, sock, gen, eof, dns, gate>>

\* The self-pipe is emptied, then the finished lookups are taken.  Its watch
\* stays in the table.
DrainPipeOnce ==
  /\ Serving(Now("ready") /\ ws[at].kind = "DNS")
  /\ pipe' = 0 /\ pc' = "take" /\ ws' = Retired({at})
  /\ UNCHANGED <<mode, running, rq, todo, prog, timers, call, net,
                 resolving, jobs, owed, gate>>
DrainPipe ==
  /\ Serving(Now("ready") /\ ws[at].kind = "DNS")
  /\ pipe' = 0 /\ pc' = "take"
  /\ UNCHANGED <<mode, running, rq, todo, prog, timers, ws, call, net,
                 resolving, jobs, owed, gate>>

TakeJobs ==
  /\ pc = "take"
  /\ rq' = rq \o Entries(jobs)
  /\ jobs' = <<>>
  /\ at' = at + 1 /\ pc' = "serve"
  /\ UNCHANGED <<mode, running, todo, prog, timers, ws, seen, wait, net,
                 resolving, owed, pipe, gate>>

ServeNothing ==
  /\ Serving(seen[at] = {})
  /\ at' = at + 1
  /\ UNCHANGED <<pump, rq, todo, prog, timers, ws, seen, wait, net, dns, gate>>

PollEnds ==
  /\ pc = "serve" /\ at > Len(ws)
  /\ pc' = "loop" /\ seen' = <<>> /\ at' = 0
  /\ UNCHANGED <<mode, running, rq, todo, prog, timers, ws, wait, net, dns, gate>>

Pump == \/ Step \/ Stop \/ TimersDue \/ PollStarts \/ Return \/ PollReturns
        \/ ServeAtOnce \/ ServeData \/ DrainPipe \/ TakeJobs \/ ServeNothing
        \/ PollEnds

-----------------------------------------------------------------------------
(* The lookup workers, the network, the clock.                             *)

\* The finished job goes on the list, under the lock; then a byte is
\* written.
WorkerHandsOver(f) ==
  /\ f \in resolving
  /\ resolving' = resolving \ {f}
  /\ jobs' = <<f>> \o jobs
  /\ owed' = owed + 1
  /\ UNCHANGED <<pump, rq, todo, prog, timers, ws, call, net, pipe, gate>>

WorkerWrites ==
  /\ owed > 0
  /\ owed' = owed - 1 /\ pipe' = pipe + 1
  /\ UNCHANGED <<pump, rq, todo, prog, timers, ws, call, net, resolving, jobs, gate>>

Arrives(fd) ==
  /\ Alive(fd) /\ ~eof[fd] /\ data[fd] < MaxData
  /\ \/ data' = [data EXCEPT ![fd] = @ + 1] /\ UNCHANGED eof
     \/ eof' = [eof EXCEPT ![fd] = TRUE] /\ UNCHANGED data
  /\ UNCHANGED <<pump, rq, todo, prog, timers, ws, call, sock, gen, dns, gate>>

Sooner(n) == IF n = None \/ n = 0 THEN n ELSE n - 1

Tick ==
  /\ pc # "exit"
  /\ timers' = [i \in DOMAIN timers |-> [timers[i] EXCEPT !.left = Sooner(@)]]
  /\ ws' = [i \in DOMAIN ws |-> [ws[i] EXCEPT !.left = Sooner(@)]]
  /\ wait' = Sooner(wait)
  /\ <<timers, ws, wait>>' # <<timers, ws, wait>>
  /\ UNCHANGED <<pump, rq, todo, prog, seen, at, net, dns, gate>>

-----------------------------------------------------------------------------

Init ==
  /\ mode \in Modes /\ pc = "loop"
  /\ rq = <<Entry(Root)>> /\ running = None
  /\ todo = MaxOps
  /\ fresh = Frames \ {Root} /\ over = {}
  /\ awaiter = [f \in Frames |-> None]
  /\ timers = <<>> /\ ws = <<>> /\ seen = <<>> /\ at = 0 /\ wait = None
  /\ sock = [fd \in Fds |-> "open"] /\ gen = [fd \in Fds |-> 1]
  /\ data = [fd \in Fds |-> 0] /\ eof = [fd \in Fds |-> FALSE]
  /\ resolving = {} /\ jobs = <<>> /\ owed = 0 /\ pipe = 0
  /\ gq = <<>> /\ surplus = 0 /\ gateOpen = TRUE

Next ==
  \/ \E f \in Frames : Act(f)
  \/ Pump
  \/ \E f \in Frames : WorkerHandsOver(f)
  \/ WorkerWrites
  \/ \E fd \in Fds : Arrives(fd)
  \/ Tick

Spec == Init /\ [][Next]_vars

\* A step of a frame comes to its next suspension, the pump is a loop of its
\* own thread, every lookup ends (getaddrinfo has its own timeout) and time
\* passes.  Nothing is assumed of the network.
FairSpec ==
  /\ Spec
  /\ WF_vars(\E f \in Frames : Act(f)) /\ WF_vars(Pump) /\ WF_vars(Tick)
  /\ \A f \in Frames : WF_vars(WorkerHandsOver(f))
  /\ WF_vars(WorkerWrites)

-----------------------------------------------------------------------------
(* Properties.                                                             *)

\* Where a frame is: how often each place of the engine refers to it.
Resumptions(f) ==
  Cardinality({i \in DOMAIN rq : rq[i] = Entry(f)})
  + Cardinality({i \in DOMAIN ws : ws[i].active /\ ws[i].frame = f})
  + Cardinality({i \in DOMAIN timers : timers[i].frame = f})
  + Cardinality({i \in DOMAIN gq : gq[i] = f})
  + Cardinality({i \in DOMAIN jobs : jobs[i] = f})
  + Cardinality(resolving \cap {f})
  + Cardinality({g \in Frames \ (fresh \cup over) : g # f /\ awaiter[g] = f})

\* While the pump runs (zan_io_poll, _zan_co_sched_run_until), and after the C
\* driver has returned, a suspended frame is held by exactly one thing that
\* will resume it: it can neither be forgotten nor be resumed twice.
HeldOnce ==
  pc # "exit" \/ mode = "c" =>
    \A f \in Frames :
      Resumptions(f) = IF f \in fresh \cup over \/ f = running THEN 0 ELSE 1

\* When the emitted pump has returned as well: the next call of it finds every frame
\* that was ready (ngen_async.zan: run_until pops one node per round and
\* checks the done flag before each step).
NothingDropped ==
  \A f \in Frames :
    Resumptions(f) = IF f \in fresh \cup over \/ f = running THEN 0 ELSE 1

\* A finished lookup has a byte in the pipe, on its way to it, or already
\* read, and somebody watches the pipe (zt_dns_worker against the drain in
\* zan_io_poll).
NoLookupForgotten ==
  /\ resolving # {} \/ jobs # <<>> => DnsWatched
  /\ jobs # <<>> => pipe > 0 \/ owed > 0 \/ pc = "take"

\* Nobody waits on a number that Close gave back: the next socket of that
\* number would answer in its place (zan_io_close_notify, zan_io_socket_alive).
OwnSocket ==
  \A i \in DOMAIN ws :
    ws[i].active /\ ws[i].kind # "DNS" =>
      sock[ws[i].fd] # "closed" /\ ws[i].gen = gen[ws[i].fd]

\* What frame f waits for has come.
HasCome(f) ==
  /\ pc # "exit"
  /\ \/ Entry(f) \in Range(rq) \/ f \in Range(jobs) \/ running = f
     \/ \E t \in Range(timers) : t.frame = f /\ Due(t)
     \/ \E i \in DOMAIN ws : ws[i].active /\ ws[i].frame = f /\ Reports(ws[i]) # {}

\* It is not left there: a ready frame runs, a timer that is due, data, a
\* closed descriptor and a finished lookup resume theirs.
Served == \A f \in Frames : HasCome(f) ~> ~HasCome(f)

\* A receive whose deadline has passed ends (zan_io_poll: expire recv-to
\* deadlines).
Expired(f) == pc # "exit" /\ \E i \in DOMAIN ws :
                ws[i].active /\ ws[i].frame = f /\ ws[i].left = 0
DeadlineEnds == \A f \in Frames : Expired(f) ~> ~Expired(f)
=============================================================================
