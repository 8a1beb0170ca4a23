-------------------------- MODULE LifecycleProofs ---------------------------
(***************************************************************************)
(* Theorems about modules Env and Lifecycle, which extends it, for any     *)
(* number of services, modules, keys and values.                           *)
(***************************************************************************)
EXTENDS Lifecycle, TLAPS

(***************************************************************************)
(* The environment alone: what setEnv's assertion keeps true.              *)
(***************************************************************************)

\* Types; a string given out, and a key won, are in the table.
EnvInv ==
  /\ env \in [Keys -> Values \cup {Nil}]
  /\ writes \in [Services -> Write \cup {NoWrite}]
  /\ got \in [Services -> Write \cup {NoWrite}]
  /\ winners \subseteq Services \X Keys
  /\ PointersStay
  /\ \A w \in winners : env[w[2]] # Nil
  /\ OneWinner

LEMMA InitEnv == Init => EnvInv
  BY DEF Init, EnvInv, PointersStay, OneWinner

\* A write that returns found the key unset and changed no other.
LEMMA PutOnce ==
  ASSUME NEW k \in Keys, NEW v \in Values, env \in [Keys -> Values \cup {Nil}], Put(k, v)
  PROVE  /\ env' \in [Keys -> Values \cup {Nil}]
         /\ \A j \in Keys : env[j] # Nil => env'[j] = env[j]
         /\ aborted' = TRUE \/ (env[k] = Nil /\ env'[k] = v)
  BY DEF Put

\* The steps of EnvInv that do not set a key for a service.
LEMMA QuietEnv ==
  ASSUME EnvInv, UNCHANGED <<writes, got, winners>>,
         env' \in [Keys -> Values \cup {Nil}],
         \A j \in Keys : env[j] # Nil => env'[j] = env[j]
  PROVE  EnvInv'
<1>1. \A s \in Services : got[s] # NoWrite => got[s].key \in Keys /\ env[got[s].key] # Nil
  BY EnvAssumption DEF EnvInv, PointersStay, Write, NoWrite
<1>2. PointersStay'
  BY <1>1 DEF EnvInv, PointersStay
<1>3. \A w \in winners' : env'[w[2]] # Nil
  BY DEF EnvInv
<1> QED  BY <1>2, <1>3 DEF EnvInv, OneWinner

LEMMA StepEnv ==
  ASSUME EnvInv, [Next]_vars
  PROVE  EnvInv' /\ \A j \in Keys : env[j] # Nil => env'[j] = env[j]
<1>1. ASSUME NEW k \in Keys, NEW v \in Values, Startup(k, v)
      PROVE  EnvInv' /\ \A j \in Keys : env[j] # Nil => env'[j] = env[j]
  <2>1. /\ env' \in [Keys -> Values \cup {Nil}]
        /\ \A j \in Keys : env[j] # Nil => env'[j] = env[j]
    BY <1>1, PutOnce DEF EnvInv, Startup, Consult
  <2> QED  BY <1>1, <2>1, QuietEnv DEF Startup
<1>2. ASSUME NEW s \in Services, SetEnv(s)
      PROVE  EnvInv' /\ \A j \in Keys : env[j] # Nil => env'[j] = env[j]
  <2> DEFINE k == writes[s].key
             v == writes[s].value
  <2>1. k \in Keys /\ v \in Values
    BY <1>2 DEF EnvInv, SetEnv, Write
  <2>2. Put(k, v)
    BY <1>2 DEF SetEnv
  <2>3. /\ env' \in [Keys -> Values \cup {Nil}]
        /\ \A j \in Keys : env[j] # Nil => env'[j] = env[j]
        /\ aborted' = TRUE \/ (env[k] = Nil /\ env'[k] = v)
    <3> HIDE DEF k, v
    <3> QED  BY <2>1, <2>2, PutOnce DEF EnvInv
  <2>4. \A c \in Services : got[c] # NoWrite => got[c].key \in Keys /\ env[got[c].key] # Nil
    BY EnvAssumption DEF EnvInv, PointersStay, Write, NoWrite
  <2>5. PointersStay'
    BY <1>2, <2>3, <2>4 DEF EnvInv, PointersStay, SetEnv
  <2>6. winners' = winners \/ (winners' = winners \cup {<<s, k>>} /\ env[k] = Nil /\ env'[k] = v)
    BY <1>2, <2>3 DEF SetEnv
  <2>7. winners' \subseteq Services \X Keys
    BY <2>1, <2>6 DEF EnvInv
  <2>8. \A w \in winners' : env'[w[2]] # Nil
    BY <2>1, <2>3, <2>6, EnvAssumption DEF EnvInv
  <2>9. OneWinner'
    BY <2>1, <2>6 DEF EnvInv, OneWinner
  <2>10. writes' \in [Services -> Write \cup {NoWrite}]
    BY <1>2 DEF EnvInv, SetEnv
  <2> QED  BY <1>2, <2>3, <2>5, <2>7, <2>8, <2>9, <2>10 DEF EnvInv, SetEnv
<1>3. ASSUME NEW s \in Services, NEW k \in Keys, GetEnv(s, k)
      PROVE  EnvInv' /\ \A j \in Keys : env[j] # Nil => env'[j] = env[j]
  <2>1. got' \in [Services -> Write \cup {NoWrite}]
    BY <1>3 DEF EnvInv, GetEnv, Write
  <2>2. PointersStay'
    BY <1>3 DEF EnvInv, GetEnv, PointersStay
  <2> QED  BY <1>3, <2>1, <2>2 DEF EnvInv, GetEnv, OneWinner
<1>4. ASSUME NEW s \in Services, NEW k \in Keys, NEW v \in Values, TestEnv(s, k, v)
      PROVE  EnvInv' /\ \A j \in Keys : env[j] # Nil => env'[j] = env[j]
  BY <1>4 DEF EnvInv, TestEnv, PointersStay, OneWinner, Write
<1>5. CASE UNCHANGED vars
  BY <1>5 DEF EnvInv, vars, PointersStay, OneWinner
<1> QED  BY <1>1, <1>2, <1>3, <1>4, <1>5 DEF Next

\* A string that getEnv has given out stays in the table.
THEOREM PointersAreStable == Spec => []PointersStay
<1>1. EnvInv => PointersStay
  BY DEF EnvInv
<1> QED  BY <1>1, InitEnv, StepEnv, PTL DEF Spec

\* At most one rednet.setenv of a key returns, in every interleaving.
THEOREM SettersAreFew == Spec => []OneWinner
<1>1. EnvInv => OneWinner
  BY DEF EnvInv
<1> QED  BY <1>1, InitEnv, StepEnv, PTL DEF Spec

\* No step replaces the value of a key: configuration and defaults survive.
THEOREM ConfigurationIsStable == Spec => ConfigurationStays
<1>1. EnvInv /\ [Next]_vars => [\A k \in Keys : env[k] # Nil => env'[k] = env[k]]_vars
  BY StepEnv
<1> QED  BY <1>1, InitEnv, StepEnv, PTL DEF Spec, ConfigurationStays
-----------------------------------------------------------------------------
(***************************************************************************)
(* Services, from their launch on.                                         *)
(***************************************************************************)
Shape ==
  /\ life \in [Services -> {"unborn", "up", "killed", "freed"}]
  /\ pc \in [Services -> {"idle", "grabbed", "launch", "start", "open", "init", "read", "abort"}]
  /\ callback \in [Services -> {"launch", "start"}]
  /\ loaded \in [Services -> {"no", "ok", "failed"}]
  /\ opened \in [Modules -> Nat]

\* Nothing is loaded or done before the main thread has made the first service.
BootFirst ==
  /\ life[Boot] = "unborn" => mods = {} /\ \A s \in Services : life[s] = "unborn"
  /\ \A s \in Services : life[s] = "unborn" => pc[s] = "idle"

\* The first event is the one that loads, and it is served once; after a
\* failure no worker comes back.
LoadFirst ==
  \A s \in Services :
    /\ pc[s] = "launch" => callback[s] = "launch"
    /\ callback[s] = "launch" => s \notin started
    /\ callback[s] = "start" => loaded[s] # "no"
    /\ loaded[s] = "failed" => pc[s] = "idle" /\ life[s] \in {"killed", "freed"}

IInv == Shape /\ BootFirst /\ LoadFirst /\ OpenedOnce /\ StartNeedsLoad

LEMMA InitHolds == LInit => IInv
  BY LifecycleAssumption
  DEF LInit, IInv, Shape, BootFirst, LoadFirst, OpenedOnce, StartNeedsLoad

LEMMA NextHolds == IInv /\ [LNext]_<<vars, lvars>> => IInv'
<1> SUFFICES ASSUME IInv, [LNext]_<<vars, lvars>> PROVE IInv'
  OBVIOUS
<1> USE LifecycleAssumption DEF IInv, Shape, BootFirst, LoadFirst, OpenedOnce, StartNeedsLoad
<1>1. CASE Configure
  BY <1>1 DEF Configure, lvars, table, progress
<1>2. CASE Bootstrap
  BY <1>2 DEF Bootstrap, Born, Enter, progress
<1>3. ASSUME NEW s \in Services, Grab(s) PROVE IInv'
  BY <1>3 DEF Grab, Goto, table, progress
<1>4. ASSUME NEW s \in Services, Pop(s) PROVE IInv'
  BY <1>4 DEF Pop, Goto, table
<1>5. ASSUME NEW s \in Services, Load(s) PROVE IInv'
  BY <1>5 DEF Load, Goto, table
<1>6. ASSUME NEW s \in Services, Finish(s) PROVE IInv'
  BY <1>6 DEF Finish, Goto, table, progress
<1>7. ASSUME NEW s \in Services, Free(s) PROVE IInv'
  BY <1>7 DEF Free, table, progress
<1>8. ASSUME NEW s \in Services, Call(s) PROVE IInv'
  <2>1. CASE Open(s)
    BY <2>1 DEF Open, Enter, Goto, table, progress
  <2>2. CASE Read(s) \/ Abort(s)
    BY <2>2 DEF Read, Abort, Runs, Goto, table, progress
  <2>3. ASSUME NEW m \in Modules, Query(s, m) PROVE IInv'
    BY <2>3 DEF Query, Runs, Goto, table, progress
  <2>4. ASSUME NEW d \in Services, Launch(s, d) PROVE IInv'
    BY <2>4 DEF Launch, Born, Goto, table, progress
  <2>5. ASSUME NEW d \in Services, Send(s, d) PROVE IInv'
    BY <2>5 DEF Send, table, progress
  <2>6. ASSUME NEW d \in Services, Kill(s, d) \/ Retire(s, d) PROVE IInv'
    BY <2>6 DEF Kill, Retire, table, progress
  <2> QED
    BY <1>8, <2>1, <2>2, <2>3, <2>4, <2>5, <2>6 DEF Call
<1>9. CASE UNCHANGED <<vars, lvars>>
  BY <1>9 DEF lvars, table, progress
<1> QED
  BY <1>1, <1>2, <1>3, <1>4, <1>5, <1>6, <1>7, <1>8, <1>9 DEF LNext

\* A module is opened at most once, however many workers launch services of
\* it at the same time (umodMgr::query).
THEOREM ModulesOpenOnce == LSpec => []OpenedOnce
<1>1. IInv => OpenedOnce
  BY DEF IInv
<1> QED
  BY InitHolds, NextHolds, <1>1, PTL DEF LSpec

\* start() runs only in services that have been loaded (script::launch).
THEOREM OnlyLoadedStart == LSpec => []StartNeedsLoad
<1>1. IInv => StartNeedsLoad
  BY DEF IInv
<1> QED
  BY InitHolds, NextHolds, <1>1, PTL DEF LSpec
=============================================================================
