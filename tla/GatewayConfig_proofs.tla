------------------------ MODULE GatewayConfig_proofs ------------------------
(***************************************************************************)
(* Proofs about the settings of the gateway, for any number of request     *)
(* threads and any values.                                                 *)
(***************************************************************************)
EXTENDS GatewayConfig, TLAPS

USE DEF mqtt

\* Which requests get to which step.
JobInv ==
    \A t \in Threads :
        /\ job[t].at \in {"read", "truncate", "write", "set", "point", "assign"} => job[t].line # NoLine
        /\ job[t].at \in {"load", "adopt"} => job[t].line = NoLine
        /\ job[t].at \in {"point", "leave", "join", "load", "adopt"} => job[t].section = "opcua"
        /\ job[t].at \in {"hangup", "start", "stop"} => job[t].section = "mqtt"
        /\ job[t].at \in {"build", "assign", "tables", "close"} => job[t].section = "database"

DownInv == ~up => \A t \in Threads : job[t] = Idle

\* What it means that nobody got in anybody's way.
SoleInv ==
    \A t, u \in Threads : t # u =>
        /\ job[t].at # "idle" /\ job[u].at # "idle" => job[t].section # job[u].section
        /\ ~(Rewriting(t) /\ Rewriting(u))

\* What is stored is in the file, or in the hands of who empties it.
FileInv ==
    /\ (\A t \in Threads : job[t].at # "write") => env = saved
    /\ \A t \in Threads :
        /\ Rewriting(t) => job[t].copy = saved
        /\ job[t].at = "write" => env = EmptyFile

\* What is stored is in Config, or in the hands of who sets it; a request
\* that goes on with its lines has stored them.
StoredInv ==
    /\ up => \A s \in Sections :
        (\A t \in Threads : job[t].at = "set" => job[t].section # s) => config[s] = Loaded(saved)[s]
    /\ \A t \in Threads :
        job[t].at \in {"set", "point", "leave", "join"} /\ job[t].line # NoLine
            => saved[job[t].section] = job[t].line

\* The environment has the stored endpoint when the connect route takes it.
EnvironInv ==
    /\ saved["opcua"] = NoLine => environ = "none"
    /\ \A t \in Threads : job[t].at = "adopt" => environ \in {"none", saved["opcua"].to}

\* A route has still to point the client to the endpoint, or to end the session.
OpcuaInv ==
    up => /\ \/ serverUrl = config["opcua"]
             \/ \E t \in Threads : job[t].section = "opcua" /\ job[t].at \in {"set", "point"}
          /\ \/ session \in {"none", config["opcua"]}
             \/ \E t \in Threads : job[t].section = "opcua" /\ job[t].at \in {"set", "point", "leave"}

MqttInv ==
    up => \/ looping => broker = config["mqtt"]
          \/ deferred
          \/ \E t \in Threads : job[t].at \in {"hangup", "start"}

PoolInv ==
    up => /\ \/ pool \in {"none", config["database"]}
             \/ \E t \in Threads : job[t].at \in {"build", "assign"}
          /\ \A t \in Threads : job[t].at = "assign" => job[t].line.to = config["database"]

Apart == SoleInv /\ FileInv /\ StoredInv /\ EnvironInv /\ OpcuaInv /\ MqttInv /\ PoolInv

IInv == TypeOK /\ JobInv /\ DownInv /\ (~raced => Apart)

\* The flag is up only where some loop may have set it; raced or not.
FlagInv ==
    /\ connected => looping \/ strays # {}
    /\ ~up => ~looping /\ strays = {}

-----------------------------------------------------------------------------
(* What a step does to the jobs.                                           *)

\* Thread t is at this step of its job now, and the others where they were.
Moved(t, step, section, line, copy) ==
    /\ job' \in [Threads -> Job]
    /\ \A u \in Threads \ {t} : job'[u] = job[u]
    /\ job'[t].at = step
    /\ job'[t].section = section
    /\ job'[t].line = line
    /\ job'[t].copy = copy

\* NoLine is a line of its own, and any file loads to hosts.
LEMMA LineFacts ==
    /\ NoLine \in Line
    /\ \A h \in Hosts, b \in BOOLEAN : [to |-> h, number |-> b] \in Line /\ [to |-> h, number |-> b] # NoLine
    /\ \A line \in Line : line # NoLine => line.to \in Hosts /\ line.to # "none"
    /\ NoLine.to = "none"
    /\ EmptyFile \in [Sections -> Line]
    /\ \A s \in Sections : EmptyFile[s] = NoLine
    /\ \A file \in [Sections -> Line] : Loaded(file) \in [Sections -> Hosts]
<1>1. "none" \notin Hosts
  BY HostsAssumption DEF Hosts
<1> QED
  BY <1>1 DEF Line, NoLine, EmptyFile, Loaded, Hosts

\* The types of a job's fields.
LEMMA JobFacts ==
    ASSUME TypeOK, NEW t \in Threads
    PROVE  /\ job[t].at \in Steps /\ job[t].section \in Sections /\ job[t].line \in Line
           /\ job[t].copy \in [Sections -> Line] /\ job[t].again \in BOOLEAN
  BY DEF TypeOK, Job

\* Goto, Finish and Begin are moves.
LEMMA GotoFacts ==
    ASSUME TypeOK, NEW t \in Threads, NEW step \in Steps, Goto(t, step)
    PROVE  Moved(t, step, job[t].section, job[t].line, job[t].copy)
  BY DEF TypeOK, Job, Goto, Moved

LEMMA FinishFacts ==
    ASSUME TypeOK, NEW t \in Threads, Finish(t)
    PROVE  Moved(t, "idle", "opcua", NoLine, EmptyFile)
<1>1. Idle \in Job
  BY LineFacts DEF Idle, Job, Steps, Sections
<1> QED
  BY <1>1 DEF TypeOK, Finish, Moved, Idle

LEMMA BeginFacts ==
    ASSUME TypeOK, NEW t \in Threads, NEW s \in Sections, NEW step \in Steps, NEW line \in Line,
           NEW again \in BOOLEAN, Begin(t, s, step, line, again)
    PROVE  Moved(t, step, s, line, EmptyFile)
<1>1. [at |-> step, section |-> s, line |-> line, again |-> again, copy |-> EmptyFile] \in Job
  BY LineFacts DEF Job
<1> QED
  BY <1>1 DEF TypeOK, Begin, Moved

\* One lemma per step of a request: the job moves, then each invariant.
LEMMA ReadLinesStep ==
    ASSUME IInv, NEW t \in Threads, ReadLines(t)
    PROVE  IInv'
<1>1. Moved(t, "truncate", job[t].section, job[t].line, env)
  <2>1. job' = [job EXCEPT ![t] = [job[t] EXCEPT !.at = "truncate", !.copy = env]]
    BY DEF IInv, TypeOK, Job, ReadLines
  <2>2. [job[t] EXCEPT !.at = "truncate", !.copy = env] \in Job
    BY LineFacts DEF IInv, TypeOK, Job, Steps, Sections, ReadLines
  <2> QED
    BY <2>1, <2>2 DEF IInv, TypeOK, Job, Moved
<1>2. TypeOK'
  BY <1>1 DEF IInv, TypeOK, ReadLines, Moved, memory
<1>3. JobInv'
  BY <1>1 DEF IInv, JobInv, ReadLines, Moved, memory
<1>4. DownInv'
  BY <1>1 DEF IInv, DownInv, Idle, ReadLines, Moved, memory
<1>5. ASSUME ~raced' PROVE Apart'
  <2>1. SoleInv'
    BY <1>5 DEF IInv, TypeOK, DownInv, Apart, SoleInv, Rewriting, ReadLines
  <2>2. FileInv'
    BY <1>1, <1>5 DEF IInv, Apart, FileInv, Rewriting, ReadLines, Moved, memory
  <2>3. StoredInv'
    BY <1>1, <1>5 DEF IInv, Apart, StoredInv, ReadLines, Moved, memory
  <2>4. EnvironInv'
    BY <1>1, <1>5 DEF IInv, Apart, EnvironInv, ReadLines, Moved, memory
  <2>5. OpcuaInv'
    BY <1>1, <1>5 DEF IInv, Apart, OpcuaInv, ReadLines, Moved, memory
  <2>6. MqttInv'
    BY <1>1, <1>5 DEF IInv, Apart, MqttInv, ReadLines, Moved, memory
  <2>7. PoolInv'
    BY <1>1, <1>5 DEF IInv, Apart, PoolInv, ReadLines, Moved, memory
  <2> QED
    BY <2>1, <2>2, <2>3, <2>4, <2>5, <2>6, <2>7 DEF Apart
<1> QED
  BY <1>2, <1>3, <1>4, <1>5 DEF IInv

LEMMA TruncateStep ==
    ASSUME IInv, NEW t \in Threads, Truncate(t)
    PROVE  IInv'
<1>1. Moved(t, "write", job[t].section, job[t].line, job[t].copy)
  BY GotoFacts DEF IInv, Truncate, Steps
<1>2. TypeOK'
  BY <1>1, JobFacts, LineFacts DEF IInv, TypeOK, Truncate, Moved, memory, JobInv, Places, Sections
<1>3. JobInv'
  BY <1>1 DEF IInv, JobInv, Truncate, Moved, memory
<1>4. DownInv'
  BY <1>1 DEF IInv, DownInv, Idle, Truncate, Moved, memory
<1>5. ASSUME ~raced' PROVE Apart'
  <2>1. SoleInv'
    BY <1>1, <1>5 DEF IInv, Apart, SoleInv, Rewriting, Truncate, Moved, memory
  <2>2. FileInv'
    BY <1>1, <1>5 DEF IInv, Apart, FileInv, Rewriting, Truncate, Moved, memory
  <2>3. StoredInv'
    BY <1>1, <1>5 DEF IInv, Apart, StoredInv, Truncate, Moved, memory
  <2>4. EnvironInv'
    BY <1>1, <1>5 DEF IInv, Apart, EnvironInv, Truncate, Moved, memory
  <2>5. OpcuaInv'
    BY <1>1, <1>5 DEF IInv, Apart, OpcuaInv, Truncate, Moved, memory
  <2>6. MqttInv'
    BY <1>1, <1>5 DEF IInv, Apart, MqttInv, Truncate, Moved, memory
  <2>7. PoolInv'
    BY <1>1, <1>5 DEF IInv, Apart, PoolInv, Truncate, Moved, memory
  <2> QED
    BY <2>1, <2>2, <2>3, <2>4, <2>5, <2>6, <2>7 DEF Apart
<1> QED
  BY <1>2, <1>3, <1>4, <1>5 DEF IInv

LEMMA WriteLinesStep ==
    ASSUME IInv, NEW t \in Threads, WriteLines(t)
    PROVE  IInv'
<1>1. Moved(t, "set", job[t].section, job[t].line, EmptyFile)
  <2>1. job' = [job EXCEPT ![t] = [job[t] EXCEPT !.at = "set", !.copy = EmptyFile]]
    BY DEF IInv, TypeOK, Job, WriteLines
  <2>2. [job[t] EXCEPT !.at = "set", !.copy = EmptyFile] \in Job
    BY LineFacts DEF IInv, TypeOK, Job, Steps, Sections, WriteLines
  <2> QED
    BY <2>1, <2>2 DEF IInv, TypeOK, Job, Moved
<1>2. TypeOK'
  BY <1>1, JobFacts DEF IInv, TypeOK, WriteLines, Rewritten, Moved, memory
<1>3. JobInv'
  BY <1>1 DEF IInv, JobInv, WriteLines, Moved, memory
<1>4. DownInv'
  BY <1>1 DEF IInv, DownInv, Idle, WriteLines, Moved, memory
<1>5. ASSUME ~raced' PROVE Apart'
  <2>1. SoleInv'
    BY <1>1, <1>5 DEF IInv, Apart, SoleInv, Rewriting, WriteLines, Moved, memory
  <2>2. FileInv'
    <3>1. env' = saved'
      BY <1>5 DEF IInv, Apart, FileInv, Rewriting, WriteLines, Rewritten
    <3>2. \A u \in Threads : job'[u].at \notin {"truncate", "write"}
      BY <1>1, <1>5 DEF IInv, Apart, SoleInv, Rewriting, WriteLines, Moved
    <3> QED
      BY <3>1, <3>2 DEF FileInv, Rewriting
  <2>3. StoredInv'
    <3>1. ASSUME up', NEW s \in Sections, \A u \in Threads : job'[u].at = "set" => job'[u].section # s
          PROVE  config'[s] = Loaded(saved')[s]
      <4>1. s # job[t].section
        BY <1>1, <3>1 DEF Moved
      <4>2. \A u \in Threads : job[u].at = "set" => job[u].section # s
        BY <1>1, <3>1 DEF Moved, WriteLines
      <4>3. saved'[s] = saved[s]
        BY <4>1 DEF IInv, TypeOK, WriteLines
      <4> QED
        BY <1>5, <3>1, <4>2, <4>3 DEF IInv, Apart, StoredInv, WriteLines, memory, Loaded
    <3>2. ASSUME NEW u \in Threads, job'[u].at \in {"set", "point", "leave", "join"}, job'[u].line # NoLine
          PROVE  saved'[job'[u].section] = job'[u].line
      <4>1. CASE u = t
        BY <1>1, <4>1, JobFacts DEF IInv, TypeOK, WriteLines, Moved
      <4>2. CASE u # t
        <5>1. job[u] = job'[u] /\ job[u].section # job[t].section
          BY <1>1, <1>5, <3>2, <4>2 DEF IInv, Apart, SoleInv, WriteLines, Moved
        <5>2. saved[job[u].section] = job[u].line
          BY <1>5, <3>2, <5>1 DEF IInv, Apart, StoredInv, WriteLines
        <5> QED
          BY <5>1, <5>2, JobFacts DEF IInv, TypeOK, WriteLines
      <4> QED
        BY <4>1, <4>2
    <3> QED
      BY <3>1, <3>2 DEF StoredInv
  <2>4. EnvironInv'
    BY <1>1, <1>5 DEF IInv, Apart, EnvironInv, WriteLines, Moved, memory, JobInv, SoleInv
  <2>5. OpcuaInv'
    BY <1>1, <1>5 DEF IInv, Apart, OpcuaInv, WriteLines, Moved, memory
  <2>6. MqttInv'
    BY <1>1, <1>5 DEF IInv, Apart, MqttInv, WriteLines, Moved, memory
  <2>7. PoolInv'
    BY <1>1, <1>5 DEF IInv, Apart, PoolInv, WriteLines, Moved, memory
  <2> QED
    BY <2>1, <2>2, <2>3, <2>4, <2>5, <2>6, <2>7 DEF Apart
<1> QED
  BY <1>2, <1>3, <1>4, <1>5 DEF IInv

LEMMA SetConfigStep ==
    ASSUME IInv, NEW t \in Threads, SetConfig(t)
    PROVE  IInv'
<1>1. \/ Moved(t, "idle", "opcua", NoLine, EmptyFile) 
         /\ (job[t].section = "server" \/ (job[t].section = "mqtt" /\ ~job[t].again))
      \/ Moved(t, "point", job[t].section, job[t].line, job[t].copy) /\ (job[t].section = "opcua")
      \/ Moved(t, "hangup", job[t].section, job[t].line, job[t].copy) /\ job[t].section = "mqtt" /\ job[t].again
      \/ Moved(t, "build", job[t].section, job[t].line, job[t].copy) /\ (job[t].section = "database")
  BY JobFacts, FinishFacts, GotoFacts DEF IInv, SetConfig, Steps, Sections, AfterSet
<1>2. TypeOK'
  BY <1>1, JobFacts, LineFacts DEF IInv, TypeOK, SetConfig, Moved, JobInv
<1>3. JobInv'
  BY <1>1 DEF IInv, JobInv, SetConfig, Moved, memory
<1>4. DownInv'
  BY <1>1 DEF IInv, DownInv, Idle, SetConfig, Moved, memory
<1>5. ASSUME ~raced' PROVE Apart'
  <2>1. SoleInv'
    BY <1>1, <1>5 DEF IInv, Apart, SoleInv, Rewriting, SetConfig, Moved, memory
  <2>2. FileInv'
    BY <1>1, <1>5 DEF IInv, Apart, FileInv, Rewriting, SetConfig, Moved, memory
  <2>3. StoredInv'
    BY <1>1, <1>5 DEF IInv, TypeOK, JobInv, Apart, FileInv, StoredInv, Loaded, Places, SetConfig, Moved
  <2>4. EnvironInv'
    BY <1>1, <1>5 DEF IInv, Apart, EnvironInv, SetConfig, Moved, memory
  <2>5. OpcuaInv'
    BY <1>1, <1>5 DEF IInv, Apart, OpcuaInv, SetConfig, Moved, memory
  <2>6. MqttInv'
    BY <1>1, <1>5 DEF IInv, Apart, MqttInv, SetConfig, Moved, Sections, TypeOK
  <2>7. PoolInv'
    <3>1. CASE job[t].section = "database"
      <4>1. job'[t].at = "build"
        BY <1>1, <3>1 DEF Moved
      <4>2. \A u \in Threads : job'[u].at # "assign"
        BY <1>1, <1>5, <3>1, <4>1 DEF IInv, Apart, JobInv, SoleInv, SetConfig, Moved
      <4> QED
        BY <4>1, <4>2 DEF PoolInv
    <3>2. CASE job[t].section # "database"
      <4>1. config'["database"] = config["database"]
        BY <3>2 DEF IInv, TypeOK, Sections, SetConfig
      <4>2. \A u \in Threads : job[u].at \in {"build", "assign"} \/ job'[u].at \in {"build", "assign"}
                                 => job'[u] = job[u]
        BY <1>1, <3>2 DEF SetConfig, Moved
      <4> QED
        BY <1>5, <4>1, <4>2 DEF IInv, Apart, PoolInv, SetConfig
    <3> QED
      BY <3>1, <3>2
  <2> QED
    BY <2>1, <2>2, <2>3, <2>4, <2>5, <2>6, <2>7 DEF Apart
<1> QED
  BY <1>2, <1>3, <1>4, <1>5 DEF IInv

LEMMA PointStep ==
    ASSUME IInv, NEW t \in Threads, Point(t)
    PROVE  IInv'
<1>1. Moved(t, "leave", job[t].section, job[t].line, job[t].copy)
  BY GotoFacts DEF IInv, Point, Steps
<1>2. TypeOK'
  BY <1>1, JobFacts, LineFacts DEF IInv, TypeOK, Point, Moved, memory, JobInv, Places, Sections
<1>3. JobInv'
  BY <1>1 DEF IInv, JobInv, Point, Moved, memory
<1>4. DownInv'
  BY <1>1 DEF IInv, DownInv, Idle, Point, Moved, memory
<1>5. ASSUME ~raced' PROVE Apart'
  <2>1. SoleInv'
    BY <1>1, <1>5 DEF IInv, Apart, SoleInv, Rewriting, Point, Moved, memory
  <2>2. FileInv'
    BY <1>1, <1>5 DEF IInv, Apart, FileInv, Rewriting, Point, Moved, memory
  <2>3. StoredInv'
    BY <1>1, <1>5 DEF IInv, Apart, StoredInv, Point, Moved, memory
  <2>4. EnvironInv'
    BY <1>1, <1>5 DEF IInv, Apart, EnvironInv, Point, Moved, memory
  <2>5. OpcuaInv'
    BY <1>1, <1>5, JobFacts DEF IInv, JobInv, Apart, StoredInv, OpcuaInv, Loaded, Point, Moved
  <2>6. MqttInv'
    BY <1>1, <1>5 DEF IInv, Apart, MqttInv, Point, Moved, memory
  <2>7. PoolInv'
    BY <1>1, <1>5 DEF IInv, Apart, PoolInv, Point, Moved, memory
  <2> QED
    BY <2>1, <2>2, <2>3, <2>4, <2>5, <2>6, <2>7 DEF Apart
<1> QED
  BY <1>2, <1>3, <1>4, <1>5 DEF IInv

LEMMA LeaveStep ==
    ASSUME IInv, NEW t \in Threads, Leave(t)
    PROVE  IInv'
<1>1. \/ Moved(t, "idle", "opcua", NoLine, EmptyFile) /\ (job[t].line = NoLine)
      \/ Moved(t, "join", job[t].section, job[t].line, job[t].copy) /\ (job[t].line # NoLine)
  BY JobFacts, FinishFacts, GotoFacts DEF IInv, Leave, Steps, Sections
<1>2. TypeOK'
  BY <1>1, JobFacts, LineFacts DEF IInv, TypeOK, Leave, Moved, memory, JobInv, Places, Sections
<1>3. JobInv'
  BY <1>1 DEF IInv, JobInv, Leave, Moved, memory
<1>4. DownInv'
  BY <1>1 DEF IInv, DownInv, Idle, Leave, Moved, memory
<1>5. ASSUME ~raced' PROVE Apart'
  <2>1. SoleInv'
    BY <1>1, <1>5 DEF IInv, Apart, SoleInv, Rewriting, Leave, Moved, memory
  <2>2. FileInv'
    BY <1>1, <1>5 DEF IInv, Apart, FileInv, Rewriting, Leave, Moved, memory
  <2>3. StoredInv'
    BY <1>1, <1>5 DEF IInv, Apart, StoredInv, Leave, Moved, memory
  <2>4. EnvironInv'
    BY <1>1, <1>5 DEF IInv, Apart, EnvironInv, Leave, Moved, memory
  <2>5. OpcuaInv'
    BY <1>1, <1>5 DEF IInv, Apart, OpcuaInv, Leave, Moved, memory
  <2>6. MqttInv'
    BY <1>1, <1>5 DEF IInv, Apart, MqttInv, Leave, Moved, memory
  <2>7. PoolInv'
    BY <1>1, <1>5 DEF IInv, Apart, PoolInv, Leave, Moved, memory
  <2> QED
    BY <2>1, <2>2, <2>3, <2>4, <2>5, <2>6, <2>7 DEF Apart
<1> QED
  BY <1>2, <1>3, <1>4, <1>5 DEF IInv

LEMMA LoadStep ==
    ASSUME IInv, NEW t \in Threads, Load(t)
    PROVE  IInv'
<1>1. Moved(t, "adopt", job[t].section, job[t].line, job[t].copy)
  BY GotoFacts DEF IInv, Load, Steps
<1>2. TypeOK'
  BY <1>1, JobFacts, LineFacts DEF IInv, TypeOK, Load, Moved, memory, JobInv, Places, Sections
<1>3. JobInv'
  BY <1>1 DEF IInv, JobInv, Load, Moved, memory
<1>4. DownInv'
  BY <1>1 DEF IInv, DownInv, Idle, Load, Moved, memory
<1>5. ASSUME ~raced' PROVE Apart'
  <2>1. SoleInv'
    BY <1>1, <1>5 DEF IInv, TypeOK, Apart, SoleInv, Rewriting, Load, Moved
  <2>2. FileInv'
    BY <1>1, <1>5 DEF IInv, Apart, FileInv, Rewriting, Load, Moved, memory
  <2>3. StoredInv'
    BY <1>1, <1>5 DEF IInv, Apart, StoredInv, Load, Moved, memory
  <2>4. EnvironInv'
    BY <1>5 DEF IInv, TypeOK, Apart, FileInv, EnvironInv, Rewriting, Load
  <2>5. OpcuaInv'
    BY <1>1, <1>5 DEF IInv, Apart, OpcuaInv, Load, Moved, memory
  <2>6. MqttInv'
    BY <1>1, <1>5 DEF IInv, Apart, MqttInv, Load, Moved, memory
  <2>7. PoolInv'
    BY <1>1, <1>5 DEF IInv, Apart, PoolInv, Load, Moved, memory
  <2> QED
    BY <2>1, <2>2, <2>3, <2>4, <2>5, <2>6, <2>7 DEF Apart
<1> QED
  BY <1>2, <1>3, <1>4, <1>5 DEF IInv

LEMMA AdoptStep ==
    ASSUME IInv, NEW t \in Threads, Adopt(t)
    PROVE  IInv'
<1>1. Moved(t, "join", job[t].section, job[t].line, job[t].copy)
  BY GotoFacts DEF IInv, Adopt, Steps
<1>2. TypeOK'
  BY <1>1, JobFacts, LineFacts DEF IInv, TypeOK, Adopt, Moved, memory, JobInv, Places, Sections
<1>3. JobInv'
  BY <1>1 DEF IInv, JobInv, Adopt, Moved, memory
<1>4. DownInv'
  BY <1>1 DEF IInv, DownInv, Idle, Adopt, Moved, memory
<1>5. ASSUME ~raced' PROVE Apart'
  <2>1. SoleInv'
    BY <1>1, <1>5 DEF IInv, Apart, SoleInv, Rewriting, Adopt, Moved, memory
  <2>2. FileInv'
    BY <1>1, <1>5 DEF IInv, Apart, FileInv, Rewriting, Adopt, Moved, memory
  <2>3. StoredInv'
    BY <1>1, <1>5, JobFacts
       DEF IInv, JobInv, Apart, SoleInv, StoredInv, EnvironInv, OpcuaInv, Loaded, Adopt, Moved
  <2>4. EnvironInv'
    BY <1>1, <1>5 DEF IInv, Apart, EnvironInv, Adopt, Moved, memory
  <2>5. OpcuaInv'
    BY <1>1, <1>5 DEF IInv, Apart, StoredInv, EnvironInv, OpcuaInv, Loaded, Sections, Adopt, Moved
  <2>6. MqttInv'
    BY <1>1, <1>5 DEF IInv, Apart, MqttInv, Adopt, Moved, Sections, TypeOK
  <2>7. PoolInv'
    BY <1>1, <1>5 DEF IInv, Apart, PoolInv, Adopt, Moved, Sections, TypeOK, SoleInv
  <2> QED
    BY <2>1, <2>2, <2>3, <2>4, <2>5, <2>6, <2>7 DEF Apart
<1> QED
  BY <1>2, <1>3, <1>4, <1>5 DEF IInv

LEMMA JoinStep ==
    ASSUME IInv, NEW t \in Threads, Join(t)
    PROVE  IInv'
<1>1. Moved(t, "idle", "opcua", NoLine, EmptyFile)
  BY FinishFacts DEF IInv, Join, Steps
<1>2. TypeOK'
  BY <1>1, JobFacts, LineFacts DEF IInv, TypeOK, Join, Moved, memory, JobInv, Places, Sections
<1>3. JobInv'
  BY <1>1 DEF IInv, JobInv, Join, Moved, memory
<1>4. DownInv'
  BY <1>1 DEF IInv, DownInv, Idle, Join, Moved, memory
<1>5. ASSUME ~raced' PROVE Apart'
  <2>1. SoleInv'
    BY <1>1, <1>5 DEF IInv, Apart, SoleInv, Rewriting, Join, Moved, memory
  <2>2. FileInv'
    BY <1>1, <1>5 DEF IInv, Apart, FileInv, Rewriting, Join, Moved, memory
  <2>3. StoredInv'
    <3>1. StoredInv /\ UNCHANGED <<up, saved>>
      BY <1>5 DEF IInv, Apart, Join
    <3>2. config' = config
      <4>1. CASE job[t].line = NoLine
        BY <4>1 DEF Join
      <4>2. CASE job[t].line # NoLine
        <5>1. config["opcua"] = job[t].line.to
          BY <1>5, <4>2, JobFacts DEF IInv, DownInv, Idle, JobInv, Apart, SoleInv, StoredInv, Loaded, Join
        <5> QED
          BY <4>2, <5>1 DEF IInv, TypeOK, Join
      <4> QED
        BY <4>1, <4>2
    <3> QED
      BY <1>1, <3>1, <3>2 DEF StoredInv, Moved, Join
  <2>4. EnvironInv'
    BY <1>1, <1>5 DEF IInv, Apart, EnvironInv, Join, Moved, memory
  <2>5. OpcuaInv'
    BY <1>5, JobFacts DEF IInv, Apart, OpcuaInv, Join, JobInv, TypeOK, SoleInv
  <2>6. MqttInv'
    BY <1>1, <1>5 DEF IInv, Apart, MqttInv, Join, Moved, Sections, TypeOK
  <2>7. PoolInv'
    BY <1>1, <1>5 DEF IInv, Apart, PoolInv, Join, Moved, Sections, TypeOK
  <2> QED
    BY <2>1, <2>2, <2>3, <2>4, <2>5, <2>6, <2>7 DEF Apart
<1> QED
  BY <1>2, <1>3, <1>4, <1>5 DEF IInv

LEMMA StopStep ==
    ASSUME IInv, NEW t \in Threads, Stop(t)
    PROVE  IInv'
<1>1. \/ Moved(t, "idle", "opcua", NoLine, EmptyFile) /\ (job[t].at = "stop")
      \/ Moved(t, "start", job[t].section, job[t].line, job[t].copy) /\ (job[t].at = "hangup")
  BY JobFacts, FinishFacts, GotoFacts DEF IInv, Stop, Steps, Sections
<1>2. TypeOK'
  BY <1>1, JobFacts, LineFacts DEF IInv, TypeOK, Stop, Moved, memory, JobInv, Places, Sections
<1>3. JobInv'
  BY <1>1 DEF IInv, JobInv, Stop, Moved, memory
<1>4. DownInv'
  BY <1>1 DEF IInv, DownInv, Idle, Stop, Moved, memory
<1>5. ASSUME ~raced' PROVE Apart'
  <2>1. SoleInv'
    BY <1>1, <1>5 DEF IInv, Apart, SoleInv, Rewriting, Stop, Moved, memory
  <2>2. FileInv'
    BY <1>1, <1>5 DEF IInv, Apart, FileInv, Rewriting, Stop, Moved, memory
  <2>3. StoredInv'
    BY <1>1, <1>5 DEF IInv, Apart, StoredInv, Stop, Moved, memory
  <2>4. EnvironInv'
    BY <1>1, <1>5 DEF IInv, Apart, EnvironInv, Stop, Moved, memory
  <2>5. OpcuaInv'
    BY <1>1, <1>5 DEF IInv, Apart, OpcuaInv, Stop, Moved, memory
  <2>6. MqttInv'
    BY <1>1, <1>5 DEF IInv, Apart, MqttInv, Stop, Moved, memory
  <2>7. PoolInv'
    BY <1>1, <1>5 DEF IInv, Apart, PoolInv, Stop, Moved, memory
  <2> QED
    BY <2>1, <2>2, <2>3, <2>4, <2>5, <2>6, <2>7 DEF Apart
<1> QED
  BY <1>2, <1>3, <1>4, <1>5 DEF IInv

LEMMA StartStep ==
    ASSUME IInv, NEW t \in Threads, Start(t)
    PROVE  IInv'
<1>1. Moved(t, "idle", "opcua", NoLine, EmptyFile)
  BY FinishFacts DEF IInv, Start, Steps
<1>2. TypeOK'
  BY <1>1, JobFacts, LineFacts DEF IInv, TypeOK, Start, Moved, memory, JobInv, Places, Sections
<1>3. JobInv'
  BY <1>1 DEF IInv, JobInv, Start, Moved, memory
<1>4. DownInv'
  BY <1>1 DEF IInv, DownInv, Idle, Start, Moved, memory
<1>5. ASSUME ~raced' PROVE Apart'
  <2>1. SoleInv'
    BY <1>1, <1>5 DEF IInv, Apart, SoleInv, Rewriting, Start, Moved, memory
  <2>2. FileInv'
    BY <1>1, <1>5 DEF IInv, Apart, FileInv, Rewriting, Start, Moved, memory
  <2>3. StoredInv'
    BY <1>1, <1>5 DEF IInv, Apart, StoredInv, Start, Moved, memory
  <2>4. EnvironInv'
    BY <1>1, <1>5 DEF IInv, Apart, EnvironInv, Start, Moved, memory
  <2>5. OpcuaInv'
    BY <1>1, <1>5 DEF IInv, Apart, OpcuaInv, Start, Moved, memory
  <2>6. MqttInv'
    BY <1>1, <1>5 DEF IInv, Apart, MqttInv, Start, Moved, memory
  <2>7. PoolInv'
    BY <1>1, <1>5 DEF IInv, Apart, PoolInv, Start, Moved, memory
  <2> QED
    BY <2>1, <2>2, <2>3, <2>4, <2>5, <2>6, <2>7 DEF Apart
<1> QED
  BY <1>2, <1>3, <1>4, <1>5 DEF IInv

LEMMA BuildStep ==
    ASSUME IInv, NEW t \in Threads, Build(t)
    PROVE  IInv'
<1>1. Moved(t, "assign", job[t].section, [to |-> config["database"], number |-> TRUE], job[t].copy)
  <2>1. job' = [job EXCEPT ![t] =
            [job[t] EXCEPT !.at = "assign", !.line = [to |-> config["database"], number |-> TRUE]]]
    BY DEF IInv, TypeOK, Job, Build
  <2>2. [job[t] EXCEPT !.at = "assign", !.line = [to |-> config["database"], number |-> TRUE]] \in Job
    BY LineFacts DEF IInv, TypeOK, Job, Steps, Sections, Build
  <2> QED
    BY <2>1, <2>2 DEF IInv, TypeOK, Job, Moved
<1>2. TypeOK'
  BY <1>1 DEF IInv, TypeOK, Build, Moved, memory
<1>3. JobInv'
  <2>1. [to |-> config["database"], number |-> TRUE] # NoLine
    BY LineFacts DEF IInv, TypeOK, Sections
  <2> QED
    BY <1>1, <2>1 DEF IInv, JobInv, Build, Moved
<1>4. DownInv'
  BY <1>1 DEF IInv, DownInv, Idle, Build, Moved, memory
<1>5. ASSUME ~raced' PROVE Apart'
  <2>1. SoleInv'
    BY <1>1, <1>5 DEF IInv, Apart, SoleInv, Rewriting, Build, Moved, memory
  <2>2. FileInv'
    BY <1>1, <1>5 DEF IInv, Apart, FileInv, Rewriting, Build, Moved, memory
  <2>3. StoredInv'
    BY <1>1, <1>5 DEF IInv, Apart, StoredInv, Build, Moved, memory
  <2>4. EnvironInv'
    BY <1>1, <1>5 DEF IInv, Apart, EnvironInv, Build, Moved, memory
  <2>5. OpcuaInv'
    BY <1>1, <1>5 DEF IInv, Apart, OpcuaInv, Build, Moved, memory
  <2>6. MqttInv'
    BY <1>1, <1>5 DEF IInv, Apart, MqttInv, Build, Moved, memory
  <2>7. PoolInv'
    BY <1>1, <1>5 DEF IInv, Apart, PoolInv, Build, Moved, memory
  <2> QED
    BY <2>1, <2>2, <2>3, <2>4, <2>5, <2>6, <2>7 DEF Apart
<1> QED
  BY <1>2, <1>3, <1>4, <1>5 DEF IInv

LEMMA AssignStep ==
    ASSUME IInv, NEW t \in Threads, Assign(t)
    PROVE  IInv'
<1>1. \/ Moved(t, "idle", "opcua", NoLine, EmptyFile) /\ (pool' = "none")
      \/ Moved(t, "tables", job[t].section, job[t].line, job[t].copy) /\ (pool' = job[t].line.to)
  BY JobFacts, FinishFacts, GotoFacts DEF IInv, Assign, Steps, Sections
<1>2. TypeOK'
  BY <1>1, JobFacts, LineFacts DEF IInv, TypeOK, Assign, Moved, memory, JobInv, Places, Sections
<1>3. JobInv'
  BY <1>1 DEF IInv, JobInv, Assign, Moved, memory
<1>4. DownInv'
  BY <1>1 DEF IInv, DownInv, Idle, Assign, Moved, memory
<1>5. ASSUME ~raced' PROVE Apart'
  <2>1. SoleInv'
    BY <1>1, <1>5 DEF IInv, Apart, SoleInv, Rewriting, Assign, Moved, memory
  <2>2. FileInv'
    BY <1>1, <1>5 DEF IInv, Apart, FileInv, Rewriting, Assign, Moved, memory
  <2>3. StoredInv'
    BY <1>1, <1>5 DEF IInv, Apart, StoredInv, Assign, Moved, memory
  <2>4. EnvironInv'
    BY <1>1, <1>5 DEF IInv, Apart, EnvironInv, Assign, Moved, memory
  <2>5. OpcuaInv'
    BY <1>1, <1>5 DEF IInv, Apart, OpcuaInv, Assign, Moved, memory
  <2>6. MqttInv'
    BY <1>1, <1>5 DEF IInv, Apart, MqttInv, Assign, Moved, memory
  <2>7. PoolInv'
    BY <1>1, <1>5 DEF IInv, Apart, PoolInv, Assign, Moved, memory
  <2> QED
    BY <2>1, <2>2, <2>3, <2>4, <2>5, <2>6, <2>7 DEF Apart
<1> QED
  BY <1>2, <1>3, <1>4, <1>5 DEF IInv

LEMMA TablesStep ==
    ASSUME IInv, NEW t \in Threads, Tables(t)
    PROVE  IInv'
<1>1. Moved(t, "idle", "opcua", NoLine, EmptyFile)
  BY FinishFacts DEF IInv, Tables, Steps
<1>2. TypeOK'
  BY <1>1, JobFacts, LineFacts DEF IInv, TypeOK, Tables, Moved, memory, JobInv, Places, Sections
<1>3. JobInv'
  BY <1>1 DEF IInv, JobInv, Tables, Moved, memory
<1>4. DownInv'
  BY <1>1 DEF IInv, DownInv, Idle, Tables, Moved, memory
<1>5. ASSUME ~raced' PROVE Apart'
  <2>1. SoleInv'
    BY <1>1, <1>5 DEF IInv, Apart, SoleInv, Rewriting, Tables, Moved, memory
  <2>2. FileInv'
    BY <1>1, <1>5 DEF IInv, Apart, FileInv, Rewriting, Tables, Moved, memory
  <2>3. StoredInv'
    BY <1>1, <1>5 DEF IInv, Apart, StoredInv, Tables, Moved, memory
  <2>4. EnvironInv'
    BY <1>1, <1>5 DEF IInv, Apart, EnvironInv, Tables, Moved, memory
  <2>5. OpcuaInv'
    BY <1>1, <1>5 DEF IInv, Apart, OpcuaInv, Tables, Moved, memory
  <2>6. MqttInv'
    BY <1>1, <1>5 DEF IInv, Apart, MqttInv, Tables, Moved, memory
  <2>7. PoolInv'
    BY <1>1, <1>5 DEF IInv, Apart, PoolInv, Tables, Moved, memory
  <2> QED
    BY <2>1, <2>2, <2>3, <2>4, <2>5, <2>6, <2>7 DEF Apart
<1> QED
  BY <1>2, <1>3, <1>4, <1>5 DEF IInv

LEMMA CloseStep ==
    ASSUME IInv, NEW t \in Threads, Close(t)
    PROVE  IInv'
<1>1. Moved(t, "idle", "opcua", NoLine, EmptyFile)
  BY FinishFacts DEF IInv, Close, Steps
<1>2. TypeOK'
  BY <1>1, JobFacts, LineFacts DEF IInv, TypeOK, Close, Moved, memory, JobInv, Places, Sections
<1>3. JobInv'
  BY <1>1 DEF IInv, JobInv, Close, Moved, memory
<1>4. DownInv'
  BY <1>1 DEF IInv, DownInv, Idle, Close, Moved, memory
<1>5. ASSUME ~raced' PROVE Apart'
  <2>1. SoleInv'
    BY <1>1, <1>5 DEF IInv, Apart, SoleInv, Rewriting, Close, Moved, memory
  <2>2. FileInv'
    BY <1>1, <1>5 DEF IInv, Apart, FileInv, Rewriting, Close, Moved, memory
  <2>3. StoredInv'
    BY <1>1, <1>5 DEF IInv, Apart, StoredInv, Close, Moved, memory
  <2>4. EnvironInv'
    BY <1>1, <1>5 DEF IInv, Apart, EnvironInv, Close, Moved, memory
  <2>5. OpcuaInv'
    BY <1>1, <1>5 DEF IInv, Apart, OpcuaInv, Close, Moved, memory
  <2>6. MqttInv'
    BY <1>1, <1>5 DEF IInv, Apart, MqttInv, Close, Moved, memory
  <2>7. PoolInv'
    BY <1>1, <1>5 DEF IInv, Apart, PoolInv, Close, Moved, memory
  <2> QED
    BY <2>1, <2>2, <2>3, <2>4, <2>5, <2>6, <2>7 DEF Apart
<1> QED
  BY <1>2, <1>3, <1>4, <1>5 DEF IInv

-----------------------------------------------------------------------------
(* Requests that begin, and what happens to the process and the network.   *)

\* Whatever the request, as long as its first step fits its section.
LEMMA BeginKeeps ==
    ASSUME IInv, NEW t \in Threads, NEW s \in Sections, NEW step \in Steps, NEW line \in Line,
           NEW again \in BOOLEAN, Begin(t, s, step, line, again),
           UNCHANGED <<environ, config, serverUrl, session, mqtt, pool>>,
           deferred' \in BOOLEAN,
           deferred' = deferred \/ step \in {"hangup", "start"},
           step = "read" => line # NoLine,
           step # "read" => line = NoLine,
           \/ step = "read"
           \/ step \in {"load", "leave"} /\ s = "opcua"
           \/ step \in {"hangup", "start", "stop"} /\ s = "mqtt"
           \/ step \in {"build", "close"} /\ s = "database"
    PROVE  IInv'
<1>1. Moved(t, step, s, line, EmptyFile)
  BY BeginFacts DEF IInv
<1>2. TypeOK'
  BY <1>1 DEF IInv, TypeOK, Begin, Moved
<1>3. JobInv'
  BY <1>1 DEF IInv, JobInv, Moved
<1>4. DownInv'
  BY <1>1 DEF IInv, DownInv, Begin
<1>5. ASSUME ~raced' PROVE Apart'
  <2>1. ~raced /\ \A u \in Threads : job[u].at # "idle" => job[u].section # s
    BY <1>5 DEF Begin, Quiet, IInv, TypeOK
  <2>2. SoleInv'
    BY <1>1, <2>1 DEF IInv, Apart, SoleInv, Rewriting, Moved
  <2>3. FileInv'
    BY <1>1, <2>1 DEF IInv, Apart, FileInv, Rewriting, Moved, Begin
  <2>4. StoredInv'
    BY <1>1, <2>1 DEF IInv, Apart, StoredInv, Moved, Begin
  <2>5. EnvironInv'
    BY <1>1, <2>1 DEF IInv, Apart, EnvironInv, Moved, Begin
  <2>6. OpcuaInv'
    BY <1>1, <2>1 DEF IInv, Apart, OpcuaInv, Moved, Begin
  <2>7. MqttInv'
    BY <1>1, <2>1 DEF IInv, Apart, MqttInv, Moved, Begin
  <2>8. PoolInv'
    BY <1>1, <2>1 DEF IInv, Apart, PoolInv, Moved, Begin
  <2> QED
    BY <2>2, <2>3, <2>4, <2>5, <2>6, <2>7, <2>8 DEF Apart
<1> QED
  BY <1>2, <1>3, <1>4, <1>5 DEF IInv

LEMMA RequestStep ==
    ASSUME IInv, NEW t \in Threads, Request(t)
    PROVE  IInv'
<1> USE BeginKeeps, LineFacts DEF Steps, Sections, memory
<1>1. CASE ConfigureOpcua(t)
  <2>1. PICK line \in OpcuaInputs : Begin(t, "opcua", "read", line, FALSE)
    BY <1>1 DEF ConfigureOpcua
  <2>2. line \in [to : Hosts, number : BOOLEAN]
    BY TimeoutAssumption DEF OpcuaInputs, Hosts
  <2>3. line \in Line /\ line # NoLine
    BY <2>2, HostsAssumption DEF Line, NoLine, Hosts
  <2> QED
    BY <1>1, <2>1, <2>3 DEF ConfigureOpcua, IInv, TypeOK
<1>2. CASE ConfigureServer(t)
  <2>1. PICK h \in Addresses : Begin(t, "server", "read", [to |-> h, number |-> TRUE], FALSE)
    BY <1>2 DEF ConfigureServer
  <2> QED
    BY <1>2, <2>1 DEF ConfigureServer, Hosts, IInv, TypeOK
<1>3. CASE ConfigureMqtt(t)
  <2>1. PICK line \in MqttInputs, again \in BOOLEAN : Begin(t, "mqtt", "read", line, again)
    BY <1>3 DEF ConfigureMqtt
  <2>2. line \in Line /\ line # NoLine
    BY DEF MqttInputs, Hosts
  <2> QED
    BY <1>3, <2>1, <2>2 DEF ConfigureMqtt, IInv, TypeOK
<1>4. CASE ConfigureDatabase(t)
  <2>1. PICK line \in DatabaseInputs : Begin(t, "database", "read", line, FALSE)
    BY <1>4 DEF ConfigureDatabase
  <2>2. line \in Line /\ line # NoLine
    BY DEF DatabaseInputs, Hosts
  <2> QED
    BY <1>4, <2>1, <2>2 DEF ConfigureDatabase, IInv, TypeOK
<1>5. CASE ConnectOpcua(t)
  BY <1>5 DEF ConnectOpcua, IInv, TypeOK
<1>6. CASE DisconnectOpcua(t)
  BY <1>6 DEF DisconnectOpcua, IInv, TypeOK
<1>7. CASE ConnectMqtt(t)
  <2>1. CASE connected /\ broker = config["mqtt"] /\ Answer(t)
    <3>1. TypeOK' /\ JobInv' /\ DownInv'
      BY <1>7, <2>1 DEF ConnectMqtt, Answer, IInv, TypeOK, JobInv, DownInv
    <3>2. ASSUME ~raced' PROVE Apart'
      <4>1. SoleInv' /\ FileInv' /\ StoredInv' /\ EnvironInv'
        BY <1>7, <2>1, <3>2 DEF ConnectMqtt, Answer, IInv, Apart, SoleInv, FileInv, StoredInv, EnvironInv,
                                Rewriting
      <4>2. OpcuaInv' /\ MqttInv' /\ PoolInv'
        BY <1>7, <2>1, <3>2 DEF ConnectMqtt, Answer, IInv, Apart, OpcuaInv, MqttInv, PoolInv
      <4> QED
        BY <4>1, <4>2 DEF Apart
    <3> QED
      BY <3>1, <3>2 DEF IInv
  <2>2. CASE ~(connected /\ broker = config["mqtt"])
    BY <1>7, <2>2 DEF ConnectMqtt
  <2> QED
    BY <1>7, <2>1, <2>2 DEF ConnectMqtt
<1>8. CASE DisconnectMqtt(t)
  BY <1>8 DEF DisconnectMqtt, IInv, TypeOK
<1>9. CASE InitDatabase(t)
  BY <1>9 DEF InitDatabase, IInv, TypeOK
<1>10. CASE DisconnectDatabase(t)
  BY <1>10 DEF DisconnectDatabase, IInv, TypeOK
<1> QED
  BY <1>1, <1>2, <1>3, <1>4, <1>5, <1>6, <1>7, <1>8, <1>9, <1>10 DEF Request

LEMMA WorkStep ==
    ASSUME IInv, NEW t \in Threads, Work(t)
    PROVE  IInv'
  BY ReadLinesStep, TruncateStep, WriteLinesStep, SetConfigStep, PointStep, LeaveStep, LoadStep,
     AdoptStep, JoinStep, StopStep, StartStep, BuildStep, AssignStep, TablesStep, CloseStep DEF Work

LEMMA BootStep ==
    ASSUME IInv, Boot
    PROVE  IInv'
<1>1. env \in [Sections -> Line] /\ Loaded(env) \in [Sections -> Hosts]
  BY LineFacts DEF IInv, TypeOK
<1>2. TypeOK'
  BY <1>1, LineFacts DEF IInv, TypeOK, Boot, Places, Sections
<1>3. JobInv' /\ DownInv'
  BY DEF IInv, JobInv, DownInv, Boot
<1>4. ASSUME ~raced' PROVE Apart'
  <2>1. ~raced /\ job' = job /\ \A t \in Threads : job[t].at = "idle"
    BY <1>4 DEF Boot, IInv, DownInv, Idle
  <2>2. env = saved
    BY <2>1 DEF IInv, Apart, FileInv
  <2>3. SoleInv' /\ FileInv'
    BY <2>1, <2>2 DEF SoleInv, FileInv, Rewriting, Boot
  <2>4. StoredInv' /\ EnvironInv'
    BY <1>1, <2>1, <2>2, LineFacts DEF StoredInv, EnvironInv, Boot, Loaded, Sections
  <2>5. OpcuaInv' /\ MqttInv' /\ PoolInv'
    BY <1>1, <2>1, <2>2 DEF OpcuaInv, MqttInv, PoolInv, Boot, Sections
  <2> QED
    BY <2>3, <2>4, <2>5 DEF Apart
<1> QED
  BY <1>2, <1>3, <1>4 DEF IInv

\* The file is empty after a crash if somebody was rewriting it.
LEMMA CrashStep ==
    ASSUME IInv, Crash
    PROVE  IInv'
<1>1. Idle \in Job /\ Idle.at = "idle" /\ \A t \in Threads : job'[t] = Idle
  BY LineFacts DEF Crash, Idle, Job, Steps, Sections
<1>2. TypeOK'
  BY <1>1, LineFacts DEF IInv, TypeOK, Crash, Places, Hosts
<1>3. JobInv' /\ DownInv'
  BY <1>1 DEF IInv, JobInv, DownInv, Crash
<1>4. ASSUME ~raced' PROVE Apart'
  <2>1. ~raced /\ ~up' /\ environ' = "none"
    BY <1>4 DEF Crash
  <2>2. SoleInv' /\ EnvironInv' /\ OpcuaInv' /\ MqttInv' /\ PoolInv'
    BY <1>1, <2>1 DEF SoleInv, EnvironInv, OpcuaInv, MqttInv, PoolInv, Rewriting
  <2>3. StoredInv'
    BY <1>1, <2>1 DEF StoredInv
  <2>4. FileInv'
    BY <1>1, <2>1 DEF IInv, Apart, FileInv, Rewriting, Crash
  <2> QED
    BY <2>2, <2>3, <2>4 DEF Apart
<1> QED
  BY <1>2, <1>3, <1>4 DEF IInv

\* The broker and the PLC change only what the invariant leaves open.
LEMMA NetworkStep ==
    ASSUME IInv, BrokerAnswers \/ BrokerLost \/ PlcLost
    PROVE  IInv'
<1> USE DEF BrokerAnswers, BrokerLost, PlcLost
<1>1. TypeOK' /\ JobInv' /\ DownInv'
  <2>1. TypeOK'
    <3>1. {environ, session, broker, pool}' \subseteq Places
      BY DEF IInv, TypeOK, Places
    <3>2. connected' \in BOOLEAN
      BY DEF IInv, TypeOK
    <3> QED
      BY <3>1, <3>2 DEF IInv, TypeOK
  <2>2. JobInv' /\ DownInv'
    BY DEF IInv, JobInv, DownInv
  <2> QED
    BY <2>1, <2>2
<1>2. ASSUME ~raced' PROVE Apart'
  <2>1. SoleInv' /\ FileInv' /\ StoredInv'
    BY <1>2 DEF IInv, Apart, SoleInv, FileInv, StoredInv, Rewriting
  <2>2. EnvironInv' /\ OpcuaInv' /\ MqttInv' /\ PoolInv'
    BY <1>2 DEF IInv, Apart, EnvironInv, OpcuaInv, MqttInv, PoolInv
  <2> QED
    BY <2>1, <2>2 DEF Apart
<1> QED
  BY <1>1, <1>2 DEF IInv

-----------------------------------------------------------------------------
LEMMA InitIInv == Init => IInv
<1> SUFFICES ASSUME Init PROVE IInv
  OBVIOUS
<1>1. Idle \in Job /\ Idle.at = "idle" /\ \A t \in Threads : job[t] = Idle
  BY LineFacts DEF Init, Idle, Job, Steps, Sections
<1>2. TypeOK
  BY <1>1, LineFacts DEF Init, TypeOK, Places, Hosts
<1>3. JobInv /\ DownInv
  BY <1>1 DEF Init, JobInv, DownInv
<1>4. Apart
  BY <1>1 DEF Init, Apart, SoleInv, FileInv, StoredInv, EnvironInv, OpcuaInv, MqttInv, PoolInv, Rewriting
<1> QED
  BY <1>2, <1>3, <1>4 DEF IInv

LEMMA StepIInv == IInv /\ [Next]_vars => IInv'
<1> SUFFICES ASSUME IInv, [Next]_vars PROVE IInv'
  OBVIOUS
<1>1. CASE Next
  BY <1>1, BootStep, CrashStep, NetworkStep, RequestStep, WorkStep DEF Next
<1>2. CASE UNCHANGED vars
  <2>1. TypeOK' /\ JobInv' /\ DownInv'
    BY <1>2 DEF IInv, TypeOK, JobInv, DownInv, vars, memory
  <2>2. ~raced' => Apart'
    BY <1>2 DEF IInv, Apart, SoleInv, FileInv, StoredInv, EnvironInv, OpcuaInv, MqttInv, PoolInv,
                Rewriting, vars, memory
  <2> QED
    BY <2>1, <2>2 DEF IInv
<1> QED
  BY <1>1, <1>2

\* The flag is cleared with the last loop: by stop() unless an earlier client
\* is left, by a start() that fails, and with the process.
LEMMA FlagStep ==
    ASSUME IInv, FlagInv, [Next]_vars
    PROVE  FlagInv'
<1> USE DEF memory, FlagInv
<1>1. CASE Boot
  BY <1>1 DEF Boot
<1>2. CASE Crash
  BY <1>2 DEF Crash
<1>3. CASE BrokerAnswers \/ BrokerLost \/ PlcLost
  BY <1>3 DEF BrokerAnswers, BrokerLost, PlcLost
<1>4. ASSUME NEW t \in Threads, Request(t) PROVE FlagInv'
  <2>1. UNCHANGED <<up, mqtt>>
    BY <1>4 DEF Request, ConfigureOpcua, ConfigureServer, ConfigureMqtt, ConfigureDatabase, ConnectOpcua,
                DisconnectOpcua, ConnectMqtt, DisconnectMqtt, InitDatabase, DisconnectDatabase, Begin, Answer
  <2> QED
    BY <2>1
<1>5. ASSUME NEW t \in Threads, Work(t) PROVE FlagInv'
  <2>1. CASE Stop(t)
    <3>1. up
      BY <2>1 DEF IInv, DownInv, Idle, Stop
    <3> QED
      BY <2>1, <3>1 DEF Stop
  <2>2. CASE Start(t)
    <3>1. up
      BY <2>2 DEF IInv, DownInv, Idle, Start
    <3> QED
      BY <2>2, <3>1 DEF Start
  <2>3. CASE UNCHANGED <<up, mqtt>>
    BY <2>3
  <2> QED
    BY <1>5, <2>1, <2>2, <2>3 DEF Work, ReadLines, Truncate, WriteLines, SetConfig, Point, Leave, Load, Adopt,
                                  Join, Build, Assign, Tables, Close
<1>6. CASE UNCHANGED vars
  BY <1>6 DEF vars
<1> QED
  BY <1>1, <1>2, <1>3, <1>4, <1>5, <1>6 DEF Next

\* The invariant holds in every reachable state.
LEMMA Invariance == Spec => [](IInv /\ FlagInv)
<1>1. Init => FlagInv
  BY DEF Init, FlagInv
<1>2. IInv /\ FlagInv /\ [Next]_vars => (IInv /\ FlagInv)'
  BY StepIInv, FlagStep
<1> QED
  BY InitIInv, <1>1, <1>2, PTL DEF Spec

\* Every variable of the settings model keeps its type.
THEOREM TypeCorrect == Spec => []TypeOK
<1>1. IInv => TypeOK
  BY DEF IInv
<1> QED
  BY <1>1, Invariance, PTL

\* For any number of request threads: what a configure route has stored stays
\* in .env through every restart, until two rewrite the file at once.
THEOREM StoredIsKept == Spec => []SettingsSurvive
<1>1. IInv => SettingsSurvive
  BY DEF IInv, Apart, FileInv, SettingsSurvive
<1> QED
  BY <1>1, Invariance, PTL

\* Config is what the next start would load.
THEOREM RunsWithStored == Spec => []ConfigIsStored
<1>1. IInv => ConfigIsStored
  BY DEF IInv, Apart, FileInv, StoredInv, ConfigIsStored
<1> QED
  BY <1>1, Invariance, PTL

\* The PLC client, the MQTT client and the pool follow Config.
THEOREM ConnectionsFollow == Spec => []ConnectionsMatch
<1>1. IInv => SessionFollows
  BY DEF IInv, Apart, OpcuaInv, SessionFollows, Quiet
<1>2. IInv /\ FlagInv => BrokerFollows
  BY DEF IInv, JobInv, Apart, MqttInv, FlagInv, BrokerFollows, Quiet
<1>3. IInv => PoolFollows
  BY DEF IInv, JobInv, Apart, PoolInv, PoolFollows, Quiet
<1>4. IInv /\ FlagInv => ConnectionsMatch
  BY <1>1, <1>2, <1>3 DEF ConnectionsMatch
<1> QED
  BY <1>4, Invariance, PTL

=============================================================================
