---------------------------- MODULE PowerPolicy ----------------------------
(***************************************************************************)
(* kernel/ai-scheduler-main.c: the power policy.  A delayed work item      *)
(* polls the temperature sensor and derives a power mode; a process may    *)
(* set the mode by hand; a worker thread reads the mode when it looks for  *)
(* a task, and again when it has found one.  Accesses are under            *)
(* thermal_lock, so each is one step; a worker acts later on what it read. *)
(***************************************************************************)
EXTENDS Naturals

CONSTANTS
  Worker,      \* workers[AI_SCHED_THREAD_POOL]
  Temperature, \* degrees Celsius the sensor can show
  NoReading    \* read_cpu_temperature fails

ASSUME PowerAssumption == Temperature \subseteq Nat /\ NoReading \notin Temperature

\* enum ai_power_mode, in its order.
MAX == 0
BALANCED == 1
EFFICIENT == 2
EMERGENCY == 3
Mode == MAX..EMERGENCY

\* The table of the threads that each mode allows; the pool is the largest.
mode_threads == [m \in Mode |-> CASE m = MAX -> 4 [] m = BALANCED -> 2 [] OTHER -> 1]

\* Faulty variant: 70 degrees belong to the lower mode.
ModeAbove(temp) ==
  IF temp >= 95 THEN EMERGENCY
  ELSE IF temp >= 85 THEN EFFICIENT
  ELSE IF temp > 70 THEN BALANCED
  ELSE MAX

calculate_power_mode(temp) ==
  IF temp >= 95 THEN EMERGENCY
  ELSE IF temp >= 85 THEN EFFICIENT
  ELSE IF temp >= 70 THEN BALANCED
  ELSE MAX

VARIABLES
  reading,     \* what the sensor file shows, or NoReading
  mode,        \* power_mode
  temp,        \* cpu_temp
  sensor,      \* thermal_sensor_available
  throttle,    \* throttle_active
  threads,     \* active_threads
  manual,      \* auxiliary: the mode was set by hand since the last poll
  thread       \* the worker threads: program counter, throttle_sleep in seconds,
               \* and the milliseconds of the sleep they are in

powerVars == <<reading, mode, temp, sensor, throttle, threads, manual, thread>>

\* A thread is at the head of its loop, asleep without a task, has dequeued a
\* task, or executes it (which is a sleep too).
ThreadRecord ==
  [pc: {"loop", "nap", "got", "run"}, throttle_sleep: {0, 1, 3},
   ms: {0, 50, 100, 200, 400, 1000, 3000}]

PowerInit ==
  /\ reading = NoReading
  /\ mode = MAX
  /\ temp = 0
  /\ sensor = FALSE
  /\ throttle = FALSE
  /\ threads = mode_threads[MAX]
  /\ manual = FALSE
  /\ thread = [w \in Worker |-> [pc |-> "loop", throttle_sleep |-> 0, ms |-> 0]]

\* Faulty variant: the mode itself is stored as the number of threads.
EnterModeRaw(m) ==
  /\ mode' = m
  /\ threads' = m
  /\ throttle' = (m >= EFFICIENT)

EnterMode(m) ==
  /\ mode' = m
  /\ threads' = mode_threads[m]
  /\ throttle' = (m >= EFFICIENT)

\* The temperature changes, or the sensor file becomes unreadable.
SensorChanges(r) ==
  /\ reading' = r
  /\ UNCHANGED <<mode, temp, sensor, throttle, threads, manual, thread>>

\* thermal_monitor_callback, the sensor answers: a mode that differs is
\* entered, also when it had been set by hand.
Poll ==
  /\ reading # NoReading
  /\ temp' = reading
  /\ sensor' = TRUE
  /\ manual' = FALSE
  /\ IF calculate_power_mode(reading) # mode
     THEN EnterMode(calculate_power_mode(reading))
     ELSE UNCHANGED <<mode, threads, throttle>>
  /\ UNCHANGED <<reading, thread>>

\* thermal_monitor_callback, the sensor cannot be read: only the flag falls.
PollFails ==
  /\ reading = NoReading
  /\ sensor' = FALSE
  /\ UNCHANGED <<reading, mode, temp, throttle, threads, manual, thread>>

\* ai_sched_set_power_mode; a mode out of range is refused.
SetPowerMode(m) ==
  /\ EnterMode(m)
  /\ manual' = TRUE
  /\ UNCHANGED <<reading, temp, sensor, thread>>

\* Seconds of sleep that the mode asks for.
SleepOf(m) == IF m = EMERGENCY THEN 3 ELSE IF m >= EFFICIENT THEN 1 ELSE 0

\* The head of the loop: a task is found, or the thread sleeps, a second at
\* least.
LoopOn(w, found, ts) ==
  /\ thread[w].pc = "loop"
  /\ thread' = [thread EXCEPT ![w] =
                 [pc |-> IF found THEN "got" ELSE "nap", throttle_sleep |-> ts,
                  ms |-> IF found THEN 0 ELSE IF ts > 0 THEN ts * 1000 ELSE 1000]]
  /\ UNCHANGED <<reading, mode, temp, sensor, throttle, threads, manual>>

\* Faulty variant: throttle_sleep is not set back to 0.
WorkerLoopSticky(w, found) ==
  LoopOn(w, found, IF sensor /\ mode >= EFFICIENT THEN SleepOf(mode) ELSE thread[w].throttle_sleep)

\* throttle_sleep is only assigned while the sensor is available.
WorkerLoop(w, found) ==
  LoopOn(w, found, IF sensor THEN SleepOf(mode) ELSE thread[w].throttle_sleep)

\* sleep_ms of the inference, by mode.
SleepMs(m) == CASE m = MAX -> 50 [] m = BALANCED -> 100 [] m = EFFICIENT -> 200 [] OTHER -> 400

\* The mode is read again, and the inference takes sleep_ms.
WorkerRun(w) ==
  /\ thread[w].pc = "got"
  /\ thread' = [thread EXCEPT ![w].pc = "run", ![w].ms = IF sensor THEN SleepMs(mode) ELSE 100]
  /\ UNCHANGED <<reading, mode, temp, sensor, throttle, threads, manual>>

\* ssleep or msleep_interruptible returns; back to the head of the loop.
WorkerWakes(w) ==
  /\ thread[w].pc \in {"nap", "run"}
  /\ thread' = [thread EXCEPT ![w].pc = "loop", ![w].ms = 0]
  /\ UNCHANGED <<reading, mode, temp, sensor, throttle, threads, manual>>

PowerNext ==
  \/ \E r \in Temperature \cup {NoReading} : SensorChanges(r)
  \/ Poll \/ PollFails
  \/ \E m \in Mode : SetPowerMode(m)
  \/ \E w \in Worker : WorkerRun(w) \/ WorkerWakes(w) \/ \E found \in BOOLEAN : WorkerLoop(w, found)

\* The callback reschedules itself; the kernel runs its threads, and a sleep
\* ends.
PowerFairness ==
  /\ WF_powerVars((Poll \/ PollFails))
  /\ \A w \in Worker :
       WF_powerVars((WorkerRun(w) \/ WorkerWakes(w) \/ \E found \in BOOLEAN : WorkerLoop(w, found)))

PowerSpec == PowerInit /\ [][PowerNext]_powerVars /\ PowerFairness

-----------------------------------------------------------------------------

\* Type invariant.
PowerTypeOK ==
  /\ mode \in Mode
  /\ temp \in Temperature \cup {0}
  /\ {sensor, throttle, manual} \subseteq BOOLEAN
  /\ threads \in {mode_threads[m] : m \in Mode}
  /\ reading \in Temperature \cup {NoReading}
  /\ thread \in [Worker -> ThreadRecord]

\* The modes that the comments on the thresholds and the table of the kernel
\* documentation give for a temperature: below 70, 70-85, 85-95, above 95.
Documented(t) ==
  {m \in Mode : \/ m = MAX /\ t < 70
                \/ m = BALANCED /\ t \in 70..85
                \/ m = EFFICIENT /\ t \in 85..95
                \/ m = EMERGENCY /\ t > 95}

(***************************************************************************)
(* What ai_sched_get_power_status reports fits together whichever of the   *)
(* two writers came last, and a mode nobody set by hand since the last     *)
(* successful poll is one documented for its temperature, also while the   *)
(* sensor is lost.  At 95 degrees exactly the code (>= AI_TEMP_CRITICAL)   *)
(* departs from the documents, which say EFFICIENT, and enters EMERGENCY.  *)
(***************************************************************************)
ReportedModeExplained ==
  /\ throttle = (mode >= EFFICIENT)
  /\ threads = mode_threads[mode]
  /\ ~manual => mode \in Documented(temp) \/ (temp = 95 /\ mode = EMERGENCY)

\* From some time on the sensor shows temperatures in T and nobody overrides
\* the mode.
Lasting(T) == <>[](reading \in T) /\ <>[](~manual)

(***************************************************************************)
(* Heat reaches every worker, and so does its end: under lasting heat of   *)
(* 85 degrees or more every inference takes 200 ms or more in the end,     *)
(* above 95 degrees it takes 400 ms and an idle worker looks for work      *)
(* every 3 s only, and in lasting cool the workers are back at 50 ms and   *)
(* 1 s, whatever modes, losses of the sensor and temperatures came before. *)
(***************************************************************************)
HeatSlowsWorkers ==
  /\ Lasting({t \in Temperature : t >= 85}) =>
       <>[](\A w \in Worker : thread[w].pc = "run" => thread[w].ms >= 200)
  /\ Lasting({t \in Temperature : t > 95}) =>
       <>[](\A w \in Worker : /\ thread[w].pc = "run" => thread[w].ms = 400
                             /\ thread[w].pc = "nap" => thread[w].ms = 3000)
  /\ Lasting({t \in Temperature : t < 70}) =>
       <>[](\A w \in Worker : /\ thread[w].pc = "run" => thread[w].ms = 50
                             /\ thread[w].pc = "nap" => thread[w].ms = 1000)

(***************************************************************************)
(* The power status is of known modes and explained by what was last read  *)
(* or set (thermal_monitor_callback, ai_sched_set_power_mode).             *)
(***************************************************************************)
PowerInv == PowerTypeOK /\ ReportedModeExplained

=============================================================================
