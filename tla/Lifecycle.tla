----------------------------- MODULE Lifecycle ------------------------------
(***************************************************************************)
(* The life of a service, from rednet.launch to its end: the table of      *)
(* loaded modules (umodule.cc), luaLaunch and kill (ucall.cc), the two     *)
(* events a script sends itself (service_script.cc), and retireAll; before *)
(* all that startup() consults the environment, module Env, which scripts  *)
(* read when they are loaded (what they write is in Env only).  Ids, names *)
(* and the lock of the registry are in Registry, the hand-over of queues   *)
(* between workers in Dispatch: here a worker serves one event, and has a  *)
(* reference to the service from the grab to the end of the handler.       *)
(***************************************************************************)
EXTENDS Env, Integers, Sequences

CONSTANTS
  Boot,      \* the service "bootstrap", a script
  Modules,   \* names of modules ...
  Script,    \* ... one of them that of scripts, the others of C++ services
  Broken,    \* ... those that cannot be opened
  MaxSends   \* bound: the events services send to one another

ASSUME LifecycleAssumption ==
  /\ Boot \in Services /\ Script \in Modules \ Broken /\ Broken \subseteq Modules
  /\ MaxSends \in Nat

VARIABLES
  mods,      \* mods__, by name
  opened,    \* history: opened[m]: the modules made of m
  life,      \* life[s]: "unborn", registered ("up"), "killed" but referred to, "freed"
  made,      \* made[s]: the module of s
  queue,     \* queue[s]: the senders of the events of s
  callback,  \* callback[s]: "launch" or "start"
  loaded,    \* loaded[s]: "no", "ok", "failed"
  started,   \* history: who has run start()
  pc,        \* pc[s]: what a worker does with s; "idle"
  launches,  \* launches[s]: the module of the service that s launches
  sends      \* how much of MaxSends is used up

table    == <<mods, opened>>
progress == <<callback, loaded, started>>
lvars    == <<table, life, made, queue, progress, pc, launches, sends>>

Goto(s, l) == pc' = [pc EXCEPT ![s] = l]
Events(s, e) == [queue EXCEPT ![s] = Append(@, e)]

\* A handler of s runs Lua and is between two calls.
Runs(s) == Running /\ pc[s] = "start" /\ made[s] = Script

\* ucontext::init, when the module is there: registered, with the event the
\* component sends itself.
Born(c, m) ==
  /\ life[c] = "unborn"
  /\ life' = [life EXCEPT ![c] = "up"]
  /\ made' = [made EXCEPT ![c] = m]
  /\ queue' = Events(c, c)

Enter(m) ==
  /\ mods' = mods \cup {m}
  /\ opened' = [opened EXCEPT ![m] = @ + 1]

\* The main thread: startup() consults the environment, and bootstrap().
Configure ==
  /\ \E k \in Keys, v \in Values : Startup(k, v)
  /\ UNCHANGED lvars

Bootstrap ==
  /\ Running
  /\ Born(Boot, Script)
  /\ Enter(Script)
  /\ UNCHANGED <<vars, progress, pc, launches, sends>>
-----------------------------------------------------------------------------
(***************************************************************************)
(* A worker: onDispatchEvent grabs the service, pops one event, executes.  *)
(***************************************************************************)
Grab(s) ==
  /\ Running
  /\ pc[s] = "idle" /\ life[s] = "up" /\ queue[s] # <<>>
  /\ Goto(s, "grabbed")
  /\ UNCHANGED <<vars, table, life, made, queue, progress, launches, sends>>

Pop(s) ==
  /\ Running
  /\ pc[s] = "grabbed"
  /\ queue' = [queue EXCEPT ![s] = Tail(@)]
  /\ Goto(s, callback[s])
  /\ started' = IF callback[s] = "start" THEN started \cup {s} ELSE started
  /\ UNCHANGED <<vars, table, life, made, callback, loaded, launches, sends>>

\* Mutant: the worker goes on with what else is queued.
LoadGoesOn(s) ==
  /\ Running
  /\ pc[s] = "launch"
  /\ \E r \in {"ok"} \cup (IF made[s] = Script THEN {"failed"} ELSE {}) :
       /\ loaded' = [loaded EXCEPT ![s] = r]
       /\ life' = IF r = "failed" THEN [life EXCEPT ![s] = "killed"] ELSE life
  /\ queue' = IF life'[s] = "up" THEN Events(s, s) ELSE queue
  /\ callback' = [callback EXCEPT ![s] = "start"]
  /\ Goto(s, IF queue'[s] # <<>> THEN "grabbed" ELSE "idle")
  /\ UNCHANGED <<vars, table, made, started, launches, sends>>

\* Mutant: the script sends itself nothing.
LoadSilent(s) ==
  /\ Running
  /\ pc[s] = "launch"
  /\ loaded' = [loaded EXCEPT ![s] = "ok"]
  /\ callback' = [callback EXCEPT ![s] = "start"]
  /\ Goto(s, "idle")
  /\ UNCHANGED <<vars, table, life, made, queue, started, launches, sends>>

\* launch: the first event.  A script that cannot be loaded unregisters
\* itself, and its second event finds nobody.  (Nobody hears of it: there is
\* no service ".launch".)
Load(s) ==
  /\ Running
  /\ pc[s] = "launch"
  /\ \E r \in {"ok"} \cup (IF made[s] = Script THEN {"failed"} ELSE {}) :
       /\ loaded' = [loaded EXCEPT ![s] = r]
       /\ life' = IF r = "failed" THEN [life EXCEPT ![s] = "killed"] ELSE life
  /\ queue' = IF life'[s] = "up" THEN Events(s, s) ELSE queue
  /\ callback' = [callback EXCEPT ![s] = "start"]
  /\ Goto(s, "idle")
  /\ UNCHANGED <<vars, table, made, started, launches, sends>>

\* start(), or the callback of a C++ service, returns.
Finish(s) ==
  /\ Running
  /\ pc[s] = "start"
  /\ Goto(s, "idle")
  /\ UNCHANGED <<vars, table, life, made, queue, progress, launches, sends>>

\* The last reference goes: notices go to the senders of what was queued.
Free(s) ==
  /\ Running
  /\ life[s] = "killed" /\ pc[s] = "idle"
  /\ life' = [life EXCEPT ![s] = "freed"]
  /\ queue' = [d \in Services |->
       IF d = s THEN <<>>
       ELSE queue[d] \o (IF life[d] = "up" THEN [i \in DOMAIN SelectSeq(queue[s], LAMBDA e : e = d) |-> s]
                         ELSE <<>>)]
  /\ UNCHANGED <<vars, table, made, progress, pc, launches, sends>>
-----------------------------------------------------------------------------
(***************************************************************************)
(* What start() calls.                                                     *)
(***************************************************************************)

\* rednet.launch: query, local_query under the read lock ...
Query(s, m) ==
  /\ Runs(s)
  /\ launches' = [launches EXCEPT ![s] = m]
  /\ Goto(s, IF m \in mods THEN "init" ELSE "open")
  /\ UNCHANGED <<vars, table, life, made, queue, progress, sends>>

\* Mutant: the table is not looked at again.
OpenBlindly(s) ==
  LET m == launches[s] IN
  /\ Running
  /\ pc[s] = "open"
  /\ IF m \in Broken THEN UNCHANGED table /\ Goto(s, "start") ELSE Enter(m) /\ Goto(s, "init")
  /\ UNCHANGED <<vars, life, made, queue, progress, launches, sends>>

\* ... then local_register under the write lock; a module that cannot be
\* opened is not remembered.
Open(s) ==
  LET m == launches[s] IN
  /\ Running
  /\ pc[s] = "open"
  /\ IF m \in mods \cup Broken THEN UNCHANGED table ELSE Enter(m)
  /\ Goto(s, IF m \in Broken THEN "start" ELSE "init")
  /\ launches' = [launches EXCEPT ![s] = IF m \in Broken THEN Nil ELSE m]
  /\ UNCHANGED <<vars, life, made, queue, progress, sends>>

\* ... the rest of init ...
Launch(s, c) ==
  /\ Running
  /\ pc[s] = "init"
  /\ Born(c, launches[s])
  /\ launches' = [launches EXCEPT ![s] = Nil]
  /\ Goto(s, "read")
  /\ UNCHANGED <<vars, table, progress, sends>>

\* ... and luaLaunch reads the child's id, if the child still exists.
Read(s) ==
  /\ Running
  /\ pc[s] = "read"
  /\ Goto(s, "start")
  /\ UNCHANGED <<vars, table, life, made, queue, progress, launches, sends>>

Send(s, d) ==
  /\ Runs(s)
  /\ life[d] = "up" /\ d # s
  /\ sends < MaxSends
  /\ sends' = sends + 1
  /\ queue' = Events(d, s)
  /\ UNCHANGED <<vars, table, life, made, progress, pc, launches>>

\* kill, and exit for d = s.
Kill(s, d) ==
  /\ Runs(s)
  /\ life[d] = "up"
  /\ life' = [life EXCEPT ![d] = "killed"]
  /\ UNCHANGED <<vars, table, made, queue, progress, pc, launches, sends>>

\* rednet.abort: retireAll does not return ...
Abort(s) ==
  /\ Runs(s)
  /\ Goto(s, "abort")
  /\ UNCHANGED <<vars, table, life, made, queue, progress, launches, sends>>

\* ... and passes over the table again and again.
Retire(s, d) ==
  /\ Running
  /\ pc[s] = "abort" /\ life[d] = "up"
  /\ life' = [life EXCEPT ![d] = "killed"]
  /\ UNCHANGED <<vars, table, made, queue, progress, pc, launches, sends>>

Call(s) ==
  \/ Open(s) \/ Read(s) \/ Abort(s)
  \/ \E m \in Modules : Query(s, m)
  \/ \E d \in Services : Launch(s, d) \/ Send(s, d) \/ Kill(s, d) \/ Retire(s, d)
-----------------------------------------------------------------------------
LInit ==
  /\ Init
  /\ mods = {} /\ opened = [m \in Modules |-> 0]
  /\ life = [s \in Services |-> "unborn"]
  /\ made = [s \in Services |-> Nil]
  /\ queue = [s \in Services |-> <<>>]
  /\ callback = [s \in Services |-> "launch"]
  /\ loaded = [s \in Services |-> "no"]
  /\ started = {}
  /\ pc = [s \in Services |-> "idle"]
  /\ launches = [s \in Services |-> Nil]
  /\ sends = 0

LNext ==
  \/ Configure \/ Bootstrap
  \/ \E s \in Services : Grab(s) \/ Pop(s) \/ Load(s) \/ Finish(s) \/ Free(s) \/ Call(s)

\* Each service that has events is served (EventsServed of Dispatch), and
\* handlers return, unless they do not.
LFairness == \A s \in Services : WF_<<vars, lvars>>(Grab(s) \/ Pop(s) \/ Load(s))

LSpec == LInit /\ [][LNext]_<<vars, lvars>> /\ LFairness
-----------------------------------------------------------------------------
\* However launches race, a module is opened once, and all services of its
\* name are of that one.
OpenedOnce == \A m \in Modules : opened[m] <= 1 /\ (opened[m] = 1 <=> m \in mods)

\* start() never runs in a script that could not be loaded, although the
\* callback is set and events are queued: it has unregistered itself, and a
\* worker that has a reference serves one event with it.
StartNeedsLoad == \A s \in started : loaded[s] = "ok"

\* A service that has been loaded is started, if nobody ends it.
LoadedStarts ==
  \A s \in Services : loaded[s] = "ok" ~> (s \in started \/ life[s] # "up" \/ aborted)
=============================================================================
