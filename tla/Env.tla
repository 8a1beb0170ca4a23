--------------------------------- MODULE Env ---------------------------------
(***************************************************************************)
(* The environment of rednet (uenv.cc): one table of keys behind a         *)
(* spinlock.  The main thread fills it from the configuration and with     *)
(* defaults; then services read it, and set keys with the two calls of     *)
(* rednet.setenv (base.lua), a read and a write.                           *)
(***************************************************************************)
CONSTANTS
  Services,   \* services with a handler running, each on a worker of its own
  Keys,
  Settings,   \* the keys startup() consults, each with a default
  Values,
  Nil         \* a key that is not set

ASSUME EnvAssumption == Settings \subseteq Keys /\ Nil \notin Values

VARIABLES
  env,      \* the globals of l__
  asked,    \* the settings startup() has consulted
  writes,   \* writes[s]: the write of rednet.setenv whose test s has passed
  got,      \* got[s]: the key s read last, and the pointer it was given
  winners,  \* history: who set which key
  aborted   \* an assertion has failed and ended the process

vars == <<env, asked, writes, got, winners, aborted>>

Write   == [key : Keys, value : Values]
NoWrite == [key |-> Nil, value |-> Nil]
Running == ~aborted /\ asked = Settings

\* setEnv: the key must not be set.
Put(k, v) ==
  IF env[k] = Nil
  THEN env' = [env EXCEPT ![k] = v] /\ UNCHANGED aborted
  ELSE aborted' = TRUE /\ UNCHANGED env

\* __getInt, __getBoolean, __getString with a default.
Consult(k, v) == IF env[k] = Nil THEN Put(k, v) ELSE UNCHANGED <<env, aborted>>

Startup(k, v) ==
  /\ ~aborted
  /\ k \in Settings \ asked
  /\ asked' = asked \cup {k}
  /\ Consult(k, v)
  /\ UNCHANGED <<writes, got, winners>>

\* rednet.getenv, and UENVSTR(key, NULL) in depotgames.  The pointer is used
\* after the lock is released.
GetEnv(s, k) ==
  /\ Running
  /\ writes[s] = NoWrite
  /\ env[k] # Nil
  /\ got' = [got EXCEPT ![s] = [key |-> k, value |-> env[k]]]
  /\ UNCHANGED <<env, asked, writes, winners, aborted>>

\* rednet.setenv: its assertion first, which fails in Lua and leaves the
\* process alone ...
TestEnv(s, k, v) ==
  /\ Running
  /\ writes[s] = NoWrite
  /\ env[k] = Nil
  /\ writes' = [writes EXCEPT ![s] = [key |-> k, value |-> v]]
  /\ UNCHANGED <<env, asked, got, winners, aborted>>

\* ... then the write.
SetEnv(s) ==
  /\ Running
  /\ writes[s] # NoWrite
  /\ Put(writes[s].key, writes[s].value)
  /\ winners' = winners \cup (IF aborted' THEN {} ELSE {<<s, writes[s].key>>})
  /\ writes' = [writes EXCEPT ![s] = NoWrite]
  /\ UNCHANGED <<asked, got>>

\* loadDeploy has put the configuration in; its keys are distinct.
Init ==
  /\ env \in [Keys -> Values \cup {Nil}]
  /\ asked = {}
  /\ writes = [s \in Services |-> NoWrite]
  /\ got = [s \in Services |-> NoWrite]
  /\ winners = {}
  /\ aborted = FALSE

Next ==
  \/ \E k \in Keys, v \in Values : Startup(k, v)
  \/ \E s \in Services :
       SetEnv(s) \/ \E k \in Keys : GetEnv(s, k) \/ \E v \in Values : TestEnv(s, k, v)

Spec == Init /\ [][Next]_vars
-----------------------------------------------------------------------------
\* A string that getEnv has given out is still in the table: no other write
\* has let the collector free it under a reader that holds no lock.
PointersStay ==
  \A s \in Services : got[s] # NoWrite => env[got[s].key] = got[s].value

\* However the tests and writes of several services interleave, at most one
\* rednet.setenv of a key returns.
OneWinner == \A u, w \in winners : u[2] = w[2] => u = w

\* The configuration and the defaults survive: startup() replaces nothing,
\* and no service sets a key that was there when it started.
ConfigurationStays ==
  [][\A k \in Keys : env[k] # Nil => env'[k] = env[k]]_vars

\* assert(lua_isnil(l__, -1)) in setEnv never fails: rednet.setenv has
\* tested the key.  It does fail: another service may set the key between
\* the test and the write.
AssertionHolds == ~aborted
=============================================================================
