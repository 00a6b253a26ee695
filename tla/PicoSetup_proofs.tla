-------------------------- MODULE PicoSetup_proofs ---------------------------
(***************************************************************************)
(* Proofs about what runs in the sensor's setup mode.                      *)
(*                                                                         *)
(* Its settings, for every set of networks, brokers and topics: the        *)
(* inductive invariant IInv says which settings are in memory, in the      *)
(* flash and on their way to it at each step of main().                    *)
(*                                                                         *)
(* Its DHCP server, for every number of clients and addresses and every    *)
(* width of the clock: the inductive invariant DhcpIInv ties the coarse    *)
(* end an entry keeps to the time of the grant, across the wrap of the     *)
(* clock; both properties follow from what the sign of the difference then *)
(* says.                                                                   *)
(***************************************************************************)
EXTENDS PicoConfig, DhcpLeases, TLAPS

-----------------------------------------------------------------------------
(* The settings                                                            *)

\* A write under way is that of the step main() is in, or of a handler, and
\* carries what the memory holds or, for the API, what it will hold.
WriteInv ==
    /\ write.by # "none" => write.data.magic
    /\ write.by = "patch" => at = "boot"
    /\ write.by = "setup" => at = "grace"
    /\ write.by = "cgi" => at \in {"run", "stopping", "armed"} \/ (at \in {"ap", "grace"} /\ isConfigured)
    /\ write.by = "api" => at \in {"run", "stopping", "armed"}
    /\ write.by \in {"patch", "setup", "cgi"} => write.data = ram
    /\ at = "boot" => ~isConfigured

\* The memory holds what the flash does, unless a form was rejected or no
\* form has come yet.
RamInv ==
    Idle /\ ~rejected =>
        /\ at \in {"join", "run", "stopping", "armed", "ended"} => ram = flash
        /\ at = "grace" \/ (at = "ap" /\ isConfigured) => ram = flash /\ ram.magic
        /\ at = "ap" /\ ~isConfigured => ram = Blanked(flash)

\* What was acknowledged is in the flash, or main() is writing it once more.
AckInv ==
    ~cut /\ ~rejected => \A c \in acked :
        /\ c.magic
        /\ Idle => flash \in {c, Patched(c)}
        /\ write.by \in {"patch", "setup"} => write.data \in {c, Patched(c)}

\* What completing settings sees to: an erased topic is left as it is.
Filled(c) == c.magic /\ c.broker # "none" /\ c.topic # "empty"

\* main() completes the settings before it goes on with them.
FilledInv ==
    /\ at = "join" => Filled(ram)
    /\ write.by \in {"patch", "setup"} => Filled(write.data)

IInv == TypeOK /\ WriteInv /\ RamInv /\ AckInv /\ FilledInv

\* A topic that was acknowledged never gives way to erased bytes: not in the
\* flash, not on its way there, and not in memory once that was read.
TopicInv ==
    ~cut => \A c \in acked : c.topic # "erased" =>
        /\ Idle => flash.topic # "erased"
        /\ ~Idle => write.data.topic # "erased"
        /\ at # "boot" => ram.topic # "erased"

-----------------------------------------------------------------------------
(* What the helpers do to settings.                                        *)

LEMMA PatchedFacts ==
    ASSUME NEW c \in Config
    PROVE  /\ Patched(c) \in Config
           /\ Patched(c).magic = c.magic
           /\ c.magic => Filled(Patched(c))
           /\ Patched(Patched(c)) = Patched(c)
           /\ [c EXCEPT !.magic = TRUE] \in Config
           /\ [c EXCEPT !.magic = TRUE].magic
           /\ c.magic => [c EXCEPT !.magic = TRUE] = c
<1>1. Patched(c) \in Config /\ Patched(c).magic = c.magic
  BY DEF Patched, Config
<1>2. c.magic => Filled(Patched(c))
  BY ValuesAssumption DEF Patched, Config, Filled
<1>3. Patched(c).broker # "none" /\ Patched(c).topic # "empty"
  BY ValuesAssumption DEF Patched, Config
<1>4. Patched(Patched(c)) = Patched(c)
  <2> DEFINE d == Patched(c)
  <2>1. d \in Config /\ d.broker # "none" /\ d.topic # "empty"
    BY <1>1, <1>3
  <2> HIDE DEF d
  <2>2. Patched(d) = d
    BY <2>1 DEF Patched, Config
  <2>3. QED
    BY <2>2 DEF d
<1>5. [c EXCEPT !.magic = TRUE] \in Config /\ [c EXCEPT !.magic = TRUE].magic
  BY DEF Config
<1>6. c.magic => [c EXCEPT !.magic = TRUE] = c
  BY DEF Config
<1>7. QED
  BY <1>1, <1>2, <1>4, <1>5, <1>6

LEMMA ErasedFacts ==
    /\ ErasedPage \in Config
    /\ \A n \in Networks : OldPage(n) \in Config
    /\ \A c \in Config : Blanked(c) \in Config /\ (c.magic => Blanked(c) = c)
    /\ \A c \in Config : Torn(c) \subseteq Config
<1>1. ErasedPage \in Config
  BY DEF ErasedPage, Config
<1>2. ASSUME NEW n \in Networks PROVE OldPage(n) \in Config
  BY DEF OldPage, ErasedPage, Config
<1>3. ASSUME NEW c \in Config PROVE Blanked(c) \in Config /\ (c.magic => Blanked(c) = c)
  BY DEF Blanked, Config
<1>4. ASSUME NEW c \in Config PROVE Torn(c) \subseteq Config
  <2>1. c.magic \in BOOLEAN
    BY DEF Config
  <2>2. [ErasedPage EXCEPT !.magic = c.magic] \in Config
    BY <2>1 DEF ErasedPage, Config
  <2>3. QED
    BY <1>1, <2>2 DEF Torn
<1>5. QED
  BY <1>1, <1>2, <1>3, <1>4

LEMMA FormFacts ==
    ASSUME TypeOK, NEW f \in Forms
    PROVE  /\ Edited(f) \in Config
           /\ [Edited(f) EXCEPT !.magic = TRUE] \in Config
           /\ [Edited(f) EXCEPT !.magic = TRUE].magic
<1>1. TopicAfter(f) \in Topics \cup {"erased", "empty", "default"}
  BY DEF TopicAfter, TypeOK, Config, Forms
<1>2. Edited(f) \in Config
  BY <1>1 DEF Edited, TypeOK, Config, Forms
<1>3. QED
  BY <1>2, PatchedFacts

LEMMA PostFacts ==
    ASSUME TypeOK, NEW p \in Posts, Acceptable(p)
    PROVE  NewConfig(p) \in Config /\ NewConfig(p).magic
<1> DEFINE enabled == IF p.enabled = "absent" THEN ram.enabled ELSE p.enabled
           broker  == IF p.broker = "absent" THEN ram.broker ELSE p.broker
           topic   == IF p.topic = "absent" THEN ram.topic ELSE p.topic
<1>1. ram \in Config
  BY DEF TypeOK
<1>2. enabled \in {"yes", "no", "erased"}
  BY <1>1 DEF Config, Posts
<1>3. broker \in Brokers \cup {"none", "default"}
  BY <1>1 DEF Config, Posts, Acceptable
<1>4. topic \in Topics \cup {"erased", "empty", "default"}
  BY <1>1 DEF Config, Posts, Acceptable
<1>5. NewConfig(p) = [ram EXCEPT !.magic = TRUE, !.enabled = enabled,
                                 !.broker = broker, !.topic = topic]
  BY DEF NewConfig
<1> HIDE DEF enabled, broker, topic
<1>6. QED
  BY <1>1, <1>2, <1>3, <1>4, <1>5 DEF Config

-----------------------------------------------------------------------------

LEMMA InitInv == Init => IInv
<1> SUFFICES ASSUME Init PROVE IInv
  OBVIOUS
<1>1. TypeOK
  BY ErasedFacts DEF Init, TypeOK, NoWrite
<1>2. WriteInv /\ RamInv /\ AckInv /\ FilledInv
  BY DEF Init, WriteInv, RamInv, AckInv, FilledInv, NoWrite, Idle
<1>3. QED
  BY <1>1, <1>2 DEF IInv

LEMMA EraseSectorInv ==
    ASSUME IInv, EraseSector
    PROVE  IInv'
<1>1. write \in Writes /\ write'.by = write.by /\ write'.data = write.data /\ write' \in Writes
  BY DEF IInv, TypeOK, EraseSector, Idle, NoWrite, Writes
<1>2. TypeOK'
  BY <1>1, ErasedFacts DEF IInv, TypeOK, EraseSector
<1>3. ~Idle /\ ~Idle'
  BY <1>1 DEF EraseSector, Idle
<1>4. QED
  BY <1>1, <1>2, <1>3 DEF IInv, EraseSector, WriteInv, RamInv, AckInv, FilledInv, Filled

LEMMA ProgramPageInv ==
    ASSUME IInv, ProgramPage
    PROVE  IInv'
<1>1. write \in Writes /\ write.data \in Config /\ ~Idle
  BY DEF IInv, TypeOK, ProgramPage, Idle, NoWrite, Writes
<1>2. write' = NoWrite /\ Idle' /\ flash' = write.data /\ write'.by = "none"
  BY DEF ProgramPage, Idle, NoWrite
<1>3. write.data.magic
  BY <1>1 DEF IInv, WriteInv, Idle
<1>4. CASE write.by \in {"patch", "setup"}
  <2>1. at' = "join" /\ UNCHANGED <<ram, restart, acked, cut, rejected, isConfigured, cgi>>
    BY <1>4 DEF ProgramPage, AfterWrite
  <2>2. write.data = ram /\ Filled(ram)
    BY <1>4 DEF IInv, WriteInv, FilledInv
  <2>3. TypeOK'
    BY <1>1, <1>2, <2>1 DEF IInv, TypeOK
  <2>4. AckInv'
    BY <1>2, <1>4, <2>1 DEF IInv, AckInv
  <2>5. QED
    BY <1>2, <2>1, <2>2, <2>3, <2>4 DEF IInv, WriteInv, RamInv, FilledInv, Filled
<1>5. CASE write.by = "cgi"
  <2>1. /\ restart' = TRUE /\ acked' = {write.data} /\ cut' = FALSE /\ rejected' = FALSE
        /\ UNCHANGED <<at, ram, isConfigured, cgi>>
    BY <1>5 DEF ProgramPage, AfterWrite
  <2>2. write.data = ram
    BY <1>5 DEF IInv, WriteInv
  <2>3. at \in {"run", "stopping", "armed"} \/ (at \in {"ap", "grace"} /\ isConfigured)
    BY <1>5 DEF IInv, WriteInv
  <2>4. TypeOK'
    BY <1>1, <1>2, <2>1 DEF IInv, TypeOK
  <2>5. QED
    BY <1>2, <1>3, <2>1, <2>2, <2>3, <2>4
    DEF IInv, WriteInv, RamInv, AckInv, FilledInv, Filled
<1>6. CASE write.by = "api"
  <2>1. /\ restart' = TRUE /\ acked' = {write.data} /\ cut' = FALSE /\ rejected' = FALSE
        /\ ram' = write.data /\ UNCHANGED <<at, isConfigured, cgi>>
    BY <1>6 DEF ProgramPage, AfterWrite
  <2>2. at \in {"run", "stopping", "armed"}
    BY <1>6 DEF IInv, WriteInv
  <2>3. TypeOK'
    BY <1>1, <1>2, <2>1 DEF IInv, TypeOK
  <2>4. QED
    BY <1>2, <1>3, <2>1, <2>2, <2>3
    DEF IInv, WriteInv, RamInv, AckInv, FilledInv, Filled
<1>7. QED
  BY <1>1, <1>4, <1>5, <1>6 DEF Writes

\* By a power failure or by the watchdog.
LEMMA ResetInv ==
    ASSUME IInv, Reset
    PROVE  IInv'
<1>1. flash' \in Config /\ cut' \in BOOLEAN
  <2>1. CASE Idle
    BY <2>1 DEF IInv, TypeOK, Reset
  <2>2. CASE ~Idle
    <3>1. write \in Writes /\ write.data \in Config /\ flash \in Config
      BY <2>2 DEF IInv, TypeOK, Idle, NoWrite, Writes
    <3>2. PICK c \in {flash, write.data} : flash' \in Torn(c) /\ cut' = TRUE
      BY <2>2 DEF Reset
    <3>3. QED
      BY <3>1, <3>2, ErasedFacts
  <2>3. QED
    BY <2>1, <2>2
<1>2. /\ at' = "boot" /\ write' = NoWrite /\ write'.by = "none" /\ ram' = ErasedPage
      /\ isConfigured' = FALSE /\ restart' = FALSE /\ cgi' = FALSE
      /\ acked' = acked /\ rejected' = rejected
  BY DEF Reset, NoWrite
<1>3. TypeOK'
  BY <1>1, <1>2, ErasedFacts DEF IInv, TypeOK
<1>4. AckInv'
  BY <1>2 DEF IInv, AckInv, Reset, Idle
<1>5. QED
  BY <1>2, <1>3, <1>4 DEF IInv, WriteInv, RamInv, FilledInv

-----------------------------------------------------------------------------
(* The steps of main().                                                    *)

LEMMA EnterSetupInv ==
    ASSUME IInv, EnterSetup
    PROVE  IInv'
<1>1. TypeOK'
  BY ErasedFacts DEF IInv, TypeOK, EnterSetup
<1>2. QED
  BY <1>1 DEF IInv, EnterSetup, Idle, WriteInv, RamInv, AckInv, FilledInv, Blanked

LEMMA LoadInv ==
    ASSUME IInv, Load
    PROVE  IInv'
<1>1. /\ flash \in Config /\ Patched(flash) \in Config /\ Filled(Patched(flash))
      /\ Patched(flash).magic /\ Patched(Patched(flash)) = Patched(flash)
  BY PatchedFacts DEF IInv, TypeOK, Load
<1>2. /\ at = "boot" /\ Idle /\ ~isConfigured /\ ram' = Patched(flash)
      /\ UNCHANGED <<flash, isConfigured, restart, cgi, acked, cut, rejected>>
  BY DEF IInv, WriteInv, Load
<1>3. ASSUME ~cut, ~rejected, NEW c \in acked
      PROVE  c.magic /\ Patched(flash) = Patched(c)
  <2>1. c \in Config /\ c.magic /\ flash \in {c, Patched(c)}
    BY <1>2, <1>3 DEF IInv, AckInv, TypeOK
  <2>2. QED
    BY <2>1, PatchedFacts
<1>4. CASE Patched(flash) # flash
  <2>1. /\ write' = [by |-> "patch", data |-> Patched(flash), step |-> "erase"]
        /\ at' = at
    BY <1>4 DEF Load, StartWrite
  <2>2. write' \in Writes /\ write'.by = "patch" /\ write'.data = ram' /\ ~Idle'
    BY <1>1, <1>2, <2>1 DEF Writes, Idle
  <2>3. TypeOK'
    BY <1>1, <1>2, <2>1, <2>2 DEF IInv, TypeOK
  <2>4. QED
    BY <1>1, <1>2, <1>3, <2>1, <2>2, <2>3
    DEF IInv, WriteInv, RamInv, AckInv, FilledInv
<1>5. CASE Patched(flash) = flash
  <2>1. at' = "join" /\ write' = write
    BY <1>5 DEF Load
  <2>2. TypeOK'
    BY <1>1, <1>2, <2>1 DEF IInv, TypeOK
  <2>3. QED
    BY <1>1, <1>2, <1>5, <2>1, <2>2 DEF IInv, Idle, WriteInv, RamInv, AckInv, FilledInv
<1>6. QED
  BY <1>4, <1>5

LEMMA StoreSetupInv ==
    ASSUME IInv, StoreSetup
    PROVE  IInv'
<1> DEFINE d == [ram EXCEPT !.magic = TRUE]
<1>1. d \in Config /\ d.magic
  BY PatchedFacts DEF IInv, TypeOK
<1>2. Patched(d) \in Config /\ Filled(Patched(d)) /\ Patched(d).magic
  BY <1>1, PatchedFacts
<1>3. /\ at = "grace" /\ Idle /\ ram' = Patched(d)
      /\ write' = [by |-> "setup", data |-> Patched(d), step |-> "erase"]
      /\ UNCHANGED <<flash, at, isConfigured, restart, cgi, acked, cut, rejected>>
  BY DEF StoreSetup, StartWrite
<1>4. ASSUME ~cut, ~rejected, NEW c \in acked
      PROVE  c.magic /\ Patched(d) = Patched(c)
  <2>1. ram = flash /\ ram.magic
    BY <1>3, <1>4 DEF IInv, RamInv
  <2>2. d = flash
    BY <2>1, PatchedFacts DEF IInv, TypeOK
  <2>3. c \in Config /\ c.magic /\ flash \in {c, Patched(c)}
    BY <1>3, <1>4 DEF IInv, AckInv, TypeOK
  <2>4. QED
    BY <2>2, <2>3, PatchedFacts
<1> HIDE DEF d
<1>5. write' \in Writes /\ write'.by = "setup" /\ write'.data = ram' /\ ~Idle'
  BY <1>2, <1>3 DEF Writes, Idle
<1>6. TypeOK'
  BY <1>2, <1>3, <1>5 DEF IInv, TypeOK
<1>7. QED
  BY <1>2, <1>3, <1>4, <1>5, <1>6 DEF IInv, WriteInv, RamInv, AckInv, FilledInv

LEMMA MainInv ==
    ASSUME IInv, Main
    PROVE  IInv'
<1>1. CASE Configured
  BY <1>1 DEF IInv, TypeOK, Configured, Idle, WriteInv, RamInv, AckInv, FilledInv
<1>2. CASE Join
  BY <1>2 DEF IInv, TypeOK, Join, Idle, WriteInv, RamInv, AckInv, FilledInv
<1>3. CASE StopLoop
  BY <1>3 DEF IInv, TypeOK, StopLoop, Idle, WriteInv, RamInv, AckInv, FilledInv
<1>4. CASE ArmWatchdog
  BY <1>4 DEF IInv, TypeOK, ArmWatchdog, Idle, WriteInv, RamInv, AckInv, FilledInv
<1>5. QED
  BY <1>1, <1>2, <1>3, <1>4, EnterSetupInv, LoadInv, StoreSetupInv DEF Main

-----------------------------------------------------------------------------
(* The handlers.                                                           *)

LEMMA SubmitInv ==
    ASSUME IInv, NEW f \in Forms, Submit(f)
    PROVE  IInv'
<1> DEFINE d == [Edited(f) EXCEPT !.magic = TRUE]
<1>1. Edited(f) \in Config /\ d \in Config /\ d.magic
  BY FormFacts DEF IInv
<1>2. /\ at \in {"ap", "grace", "run", "stopping", "armed"} /\ Idle
      /\ UNCHANGED <<flash, at, restart, cgi, acked, cut>>
  BY DEF Submit, Reachable
<1>3. CASE f.network = "bad"
  <2>1. ram' = Edited(f) /\ rejected' = TRUE /\ UNCHANGED <<isConfigured, write>>
    BY <1>3 DEF Submit
  <2>2. TypeOK'
    BY <1>1, <1>2, <2>1 DEF IInv, TypeOK
  <2>3. QED
    BY <1>2, <2>1, <2>2 DEF IInv, Idle, WriteInv, RamInv, AckInv, FilledInv
<1>4. CASE f.network # "bad"
  <2>1. /\ ram' = d /\ isConfigured' = TRUE /\ rejected' = rejected
        /\ write' = [by |-> "cgi", data |-> d, step |-> "erase"]
    BY <1>4 DEF Submit, StartWrite
  <2> HIDE DEF d
  <2>2. write' \in Writes /\ write'.by = "cgi" /\ write'.data = d /\ ~Idle'
    BY <1>1, <2>1 DEF Writes, Idle
  <2>3. TypeOK'
    BY <1>1, <1>2, <2>1, <2>2 DEF IInv, TypeOK
  <2>4. QED
    BY <1>1, <1>2, <2>1, <2>2, <2>3 DEF IInv, WriteInv, RamInv, AckInv, FilledInv
<1>5. QED
  BY <1>3, <1>4

LEMMA PostInv ==
    ASSUME IInv, NEW p \in Posts, Post(p)
    PROVE  IInv'
<1> DEFINE d == NewConfig(p)
<1>1. d \in Config /\ d.magic
  BY PostFacts DEF IInv, Post
<1>2. /\ at \in {"run", "stopping", "armed"}
      /\ write' = [by |-> "api", data |-> d, step |-> "erase"]
      /\ UNCHANGED <<flash, ram, at, isConfigured, restart, cgi, acked, cut, rejected>>
  BY DEF Post, StartWrite
<1> HIDE DEF d
<1>3. write' \in Writes /\ write'.by = "api" /\ write'.data = d /\ ~Idle'
  BY <1>1, <1>2 DEF Writes, Idle
<1>4. TypeOK'
  BY <1>2, <1>3 DEF IInv, TypeOK
<1>5. QED
  BY <1>1, <1>2, <1>3, <1>4 DEF IInv, WriteInv, RamInv, AckInv, FilledInv

-----------------------------------------------------------------------------
(* The topic.                                                              *)

\* Neither a form nor a post makes the topic erased.
LEMMA TopicStays ==
    ASSUME TypeOK, ram.topic # "erased"
    PROVE  /\ Patched(ram).topic # "erased"
           /\ \A f \in Forms : flash.topic # "erased" =>
                  /\ Edited(f).topic # "erased"
                  /\ [Edited(f) EXCEPT !.magic = TRUE].topic # "erased"
           /\ \A p \in Posts : NewConfig(p).topic # "erased"
<1>1. ram \in Config /\ flash \in Config
  BY DEF TypeOK
<1>2. Patched(ram).topic # "erased"
  BY <1>1 DEF Patched, Config
<1>3. ASSUME NEW f \in Forms, flash.topic # "erased"
      PROVE  /\ Edited(f).topic # "erased"
             /\ [Edited(f) EXCEPT !.magic = TRUE].topic # "erased"
  <2>1. f.topic # "erased"
    BY ValuesAssumption DEF Forms
  <2>2. TopicAfter(f) # "erased"
    BY <1>3, <2>1 DEF TopicAfter
  <2>3. Edited(f).topic = TopicAfter(f)
    BY DEF Edited
  <2>4. [Edited(f) EXCEPT !.magic = TRUE].topic = Edited(f).topic
    BY DEF Edited
  <2>5. QED
    BY <2>2, <2>3, <2>4
<1>4. ASSUME NEW p \in Posts
      PROVE  NewConfig(p).topic # "erased"
  <2>1. p.topic # "erased"
    BY ValuesAssumption DEF Posts
  <2>2. NewConfig(p).topic = IF p.topic = "absent" THEN ram.topic ELSE p.topic
    BY <1>1 DEF NewConfig, Config
  <2>3. QED
    BY <2>1, <2>2
<1>5. QED
  BY <1>2, <1>3, <1>4

LEMMA TopicFlashInv ==
    ASSUME IInv, TopicInv, EraseSector \/ ProgramPage \/ Reset
    PROVE  TopicInv'
<1>1. CASE EraseSector
  <2>1. ~Idle /\ ~Idle' /\ write'.data = write.data
    BY <1>1 DEF IInv, TypeOK, EraseSector, Idle, NoWrite, Writes
  <2>2. QED
    BY <1>1, <2>1 DEF TopicInv, EraseSector
<1>2. CASE ProgramPage
  <2>1. write \in Writes /\ ~Idle /\ Idle' /\ flash' = write.data
    BY <1>2 DEF IInv, TypeOK, ProgramPage, Idle, NoWrite, Writes
  <2>2. CASE write.by \in {"patch", "setup"}
    <3>1. write.data = ram /\ UNCHANGED <<ram, acked, cut>>
      BY <1>2, <2>2 DEF IInv, WriteInv, ProgramPage, AfterWrite
    <3>2. QED
      BY <2>1, <3>1 DEF TopicInv
  <2>3. CASE write.by = "cgi"
    <3>1. write.data = ram /\ ram' = ram /\ acked' = {write.data}
      BY <1>2, <2>3 DEF IInv, WriteInv, ProgramPage, AfterWrite
    <3>2. QED
      BY <2>1, <3>1 DEF TopicInv
  <2>4. CASE write.by = "api"
    <3>1. ram' = write.data /\ acked' = {write.data}
      BY <1>2, <2>4 DEF ProgramPage, AfterWrite
    <3>2. QED
      BY <2>1, <3>1 DEF TopicInv
  <2>5. QED
    BY <2>1, <2>2, <2>3, <2>4 DEF Writes
<1>3. CASE Reset
  <2>1. at' = "boot" /\ Idle' /\ acked' = acked
    BY <1>3 DEF Reset, Idle, NoWrite
  <2>2. CASE Idle
    BY <1>3, <2>1, <2>2 DEF Reset, TopicInv
  <2>3. CASE ~Idle
    BY <1>3, <2>3 DEF Reset, TopicInv
  <2>4. QED
    BY <2>2, <2>3
<1>4. QED
  BY <1>1, <1>2, <1>3

LEMMA TopicMainInv ==
    ASSUME IInv, TopicInv, Main
    PROVE  TopicInv'
<1>1. flash \in Config /\ ram \in Config
  BY DEF IInv, TypeOK
<1>2. CASE EnterSetup
  <2>1. Blanked(flash).topic = flash.topic
    BY <1>1 DEF Blanked, Config
  <2>2. QED
    BY <1>2, <2>1 DEF TopicInv, EnterSetup, Idle
<1>3. CASE Load
  <2>1. flash.topic # "erased" => Patched(flash).topic # "erased"
    BY <1>1 DEF Patched, Config
  <2>2. CASE Patched(flash) # flash
    <3>1. Idle /\ ~Idle' /\ write'.data = Patched(flash)
      BY <1>3, <2>2 DEF Load, StartWrite, Idle
    <3>2. QED
      BY <1>3, <2>1, <3>1 DEF TopicInv, Load
  <2>3. CASE Patched(flash) = flash
    <3>1. Idle /\ Idle'
      BY <1>3, <2>3 DEF Load, Idle
    <3>2. QED
      BY <1>3, <2>1, <3>1 DEF TopicInv, Load
  <2>4. QED
    BY <2>2, <2>3
<1>4. CASE StoreSetup
  <2> DEFINE d == [ram EXCEPT !.magic = TRUE]
  <2>1. d \in Config /\ d.topic = ram.topic
    BY <1>1 DEF Config
  <2>2. d.topic # "erased" => Patched(d).topic # "erased"
    BY <2>1 DEF Patched, Config
  <2>3. at = "grace" /\ ~Idle' /\ ram' = Patched(d) /\ write'.data = Patched(d)
        /\ UNCHANGED <<at, flash, acked, cut>>
    BY <1>4 DEF StoreSetup, StartWrite, Idle
  <2> HIDE DEF d
  <2>4. QED
    BY <2>1, <2>2, <2>3 DEF TopicInv
<1>5. CASE Configured \/ Join \/ StopLoop \/ ArmWatchdog
  <2>1. at # "boot" /\ UNCHANGED <<flash, ram, write, acked, cut>>
    BY <1>5 DEF Configured, Join, StopLoop, ArmWatchdog
  <2>2. QED
    BY <2>1 DEF TopicInv, Idle
<1>6. QED
  BY <1>2, <1>3, <1>4, <1>5 DEF Main

LEMMA TopicHandlerInv ==
    ASSUME IInv, TopicInv, (\E f \in Forms : Submit(f)) \/ (\E p \in Posts : Post(p))
    PROVE  TopicInv'
<1>1. at # "boot" /\ Idle /\ UNCHANGED <<flash, at, acked, cut>>
  BY DEF Submit, Reachable, Post
<1>2. ASSUME ~cut, NEW c \in acked, c.topic # "erased"
      PROVE  flash.topic # "erased" /\ ram.topic # "erased"
  BY <1>1, <1>2 DEF TopicInv
<1>3. CASE \E f \in Forms : Submit(f)
  <2>1. PICK f \in Forms : Submit(f)
    BY <1>3
  <2>2. CASE f.network = "bad"
    <3>1. ram' = Edited(f) /\ write' = write
      BY <2>1, <2>2 DEF Submit
    <3>2. QED
      BY <1>1, <1>2, <3>1, TopicStays DEF IInv, TopicInv, Idle
  <2>3. CASE f.network # "bad"
    <3>1. ram' = [Edited(f) EXCEPT !.magic = TRUE] /\ write'.data = ram' /\ ~Idle'
      BY <2>1, <2>3 DEF Submit, StartWrite, Idle
    <3>2. QED
      BY <1>1, <1>2, <3>1, TopicStays DEF IInv, TopicInv
  <2>4. QED
    BY <2>2, <2>3
<1>4. CASE \E p \in Posts : Post(p)
  <2>1. PICK p \in Posts : Post(p)
    BY <1>4
  <2>2. ram' = ram /\ write'.data = NewConfig(p) /\ ~Idle'
    BY <2>1 DEF Post, StartWrite, Idle
  <2>3. QED
    BY <1>1, <1>2, <2>2, TopicStays DEF IInv, TopicInv
<1>5. QED
  BY <1>3, <1>4

-----------------------------------------------------------------------------

LEMMA Inductive == Spec => []IInv
<1>1. IInv /\ [Next]_vars => IInv'
  <2> SUFFICES ASSUME IInv, [Next]_vars PROVE IInv'
    OBVIOUS
  <2>1. CASE Next
    BY <2>1, EraseSectorInv, ProgramPageInv, ResetInv, MainInv, SubmitInv, PostInv
    DEF Next, PowerCut, WatchdogReset
  <2>2. CASE UNCHANGED vars
    BY <2>2 DEF vars, IInv, TypeOK, Idle, WriteInv, RamInv, AckInv, FilledInv
  <2>3. QED
    BY <2>1, <2>2
<1>2. QED
  BY InitInv, <1>1, PTL DEF Spec

LEMMA TopicKept == Spec => []TopicInv
<1>1. Init => TopicInv
  BY DEF Init, TopicInv
<1>2. IInv /\ TopicInv /\ [Next]_vars => TopicInv'
  <2> SUFFICES ASSUME IInv, TopicInv, [Next]_vars PROVE TopicInv'
    OBVIOUS
  <2>1. CASE Next
    BY <2>1, TopicFlashInv, TopicMainInv, TopicHandlerInv DEF Next, PowerCut, WatchdogReset
  <2>2. CASE UNCHANGED vars
    BY <2>2 DEF vars, TopicInv, Idle
  <2>3. QED
    BY <2>1, <2>2
<1>3. QED
  BY Inductive, <1>1, <1>2, PTL DEF Spec

\* Every variable keeps its type.
THEOREM TypeCorrect == Spec => []TypeOK
<1>1. IInv => TypeOK
  BY DEF IInv
<1>2. QED
  BY Inductive, <1>1, PTL

\* Settings that were acknowledged stay in the flash, through every reset that
\* does not cut a write.
THEOREM AcknowledgedIsKept == Spec => []AckedIsStored
<1>1. IInv => AckedIsStored
  BY DEF IInv, AckInv, AckedIsStored
<1>2. QED
  BY Inductive, <1>1, PTL

\* The device runs with the settings that are stored.
THEOREM RunsWithStored == Spec => []RunsStored
<1>1. IInv => RunsStored
  BY DEF IInv, RamInv, RunsStored
<1>2. QED
  BY Inductive, <1>1, PTL

\* MQTT starts with settings that were completed, and with no erased topic once
\* the user was told that one is saved.
THEOREM JoinsWithPatched == Spec => []JoinsPatched
<1>1. TypeOK /\ FilledInv /\ TopicInv => JoinsPatched
  BY DEF FilledInv, Filled, TopicInv, JoinsPatched
<1>2. IInv => TypeOK /\ FilledInv
  BY DEF IInv
<1>3. QED
  BY Inductive, TopicKept, <1>1, <1>2, PTL

-----------------------------------------------------------------------------
(* The DHCP server                                                         *)

\* The clock a units ago.
Back(a) == IF now >= a THEN now - a ELSE now - a + Word

\* An entry in use keeps the end of the lease that began at its last grant.
ExpiryFollows ==
    \A i \in Slot : lease[i].mac # Free /\ age[i] # OldAge
                        => lease[i].expiry = Stamp(Back(age[i]))

\* Who may still use an address has its entry, and no longer than the lease.
HoldersKept ==
    \A c \in Clients : held[c].left > 0 =>
        /\ lease[held[c].addr].mac = c
        /\ held[c].left + age[held[c].addr] <= LeaseTime

DhcpIInv == DhcpTypeOK /\ ExpiryFollows /\ HoldersKept

-----------------------------------------------------------------------------
(* Arithmetic of the clock *)

LEMMA WordType ==
    /\ Word \in Nat /\ Half \in Nat /\ Word = 2 * Half /\ Half > LeaseTime
    /\ LeaseTime \in Nat \ {0} /\ Coarse \in Nat \ {0} /\ LeaseTime + Coarse <= Half
    /\ OldAge \in Nat /\ OldAge = LeaseTime + Half + 1
BY LeaseAssumption DEF Word, OldAge

\* The clock's range is a whole number of coarse units.
LEMMA WholeUnits ==
    /\ Word \div Coarse \in Nat
    /\ Word = (Word \div Coarse) * Coarse
BY LeaseAssumption DEF Word

LEMMA ModWord ==
    ASSUME NEW a \in Int, -Word <= a, a < 2 * Word
    PROVE  a % Word = IF a < 0 THEN a + Word ELSE IF a < Word THEN a ELSE a - Word
<1>1. Word \in Nat \ {0}
  BY WordType
<1>2. CASE a < 0
  BY <1>1, <1>2
<1>3. CASE a >= 0 /\ a < Word
  BY <1>1, <1>3
<1>4. CASE a >= Word
  BY <1>1, <1>4
<1> QED
  BY <1>1, <1>2, <1>3, <1>4

\* Cutting an instant to coarse units and filling it up again with ones adds
\* less than a unit, and stays within the clock's range.
LEMMA CoarseEnd ==
    ASSUME NEW x \in 0..Word - 1
    PROVE  /\ x \div Coarse \in 0..Word \div Coarse - 1
           /\ (x \div Coarse) * Coarse + Coarse - 1 \in x..x + Coarse - 1
           /\ (x \div Coarse) * Coarse + Coarse - 1 < Word
<1> DEFINE q == x \div Coarse
           k == Word \div Coarse
<1>1. Coarse \in Nat \ {0} /\ x \in Nat /\ Word \in Nat
  BY WordType
<1>2. q \in Nat /\ q * Coarse <= x /\ x < q * Coarse + Coarse
  BY <1>1
<1>3. k \in Nat /\ Word = k * Coarse
  BY WholeUnits
<1>4. q * Coarse < k * Coarse
  BY <1>1, <1>2, <1>3
<1> HIDE DEF q, k
<1>5. q < k /\ (q + 1) * Coarse <= k * Coarse
  BY <1>1, <1>2, <1>3, <1>4
<1>6. (q + 1) * Coarse = q * Coarse + Coarse /\ q * Coarse \in Nat
  BY <1>1, <1>2
<1> QED
  BY <1>1, <1>2, <1>3, <1>5, <1>6 DEF q, k

LEMMA StampType ==
    ASSUME NEW t \in 0..Word - 1
    PROVE  Stamp(t) \in 0..Word \div Coarse - 1
<1>1. (t + LeaseTime) % Word \in 0..Word - 1
  BY ModWord, WordType
<1> QED
  BY <1>1, CoarseEnd DEF Stamp

\* What the sign of the difference says of an entry granted a units ago: its
\* end is up only after the lease time, and after one more coarse unit surely.
LEMMA SignOfDifference ==
    ASSUME DhcpTypeOK, NEW i \in Slot, NEW a \in 0..OldAge - 1,
           lease[i].expiry = Stamp(Back(a))
    PROVE  /\ Expired(i) => a > LeaseTime
           /\ a >= LeaseTime + Coarse => Expired(i)
<1> DEFINE x == (Back(a) + LeaseTime) % Word
           d == Deadline(i)
<1>1. now \in 0..Word - 1
  BY DEF DhcpTypeOK
<1>2. Back(a) \in 0..Word - 1
  BY <1>1, WordType DEF Back
<1>3. x = IF Back(a) + LeaseTime < Word THEN Back(a) + LeaseTime
                                        ELSE Back(a) + LeaseTime - Word
  BY <1>2, WordType, ModWord
<1>4. x \in 0..Word - 1
  BY <1>2, <1>3, WordType
<1>5. d \in x..x + Coarse - 1 /\ d < Word
  BY <1>4, CoarseEnd DEF Deadline, Stamp
<1>6. d \in Int /\ x \in Int
  BY <1>4, <1>5, WordType
<1> HIDE DEF x, d
<1>7. (d - now) % Word = IF d < now THEN d - now + Word ELSE d - now
  <2>1. d >= 0
    BY <1>4, <1>5, <1>6, WordType
  <2>2. d - now \in Int /\ -Word <= d - now /\ d - now < Word
    BY <1>1, <1>5, <1>6, <2>1, WordType
  <2> DEFINE e == d - now
  <2>3. e \in Int /\ -Word <= e /\ e < Word /\ Word \in Nat
    BY <2>2, WordType
  <2> HIDE DEF e
  <2>4. e % Word = IF e < 0 THEN e + Word ELSE e
    BY <2>3, ModWord
  <2>5. e < 0 <=> d < now
    BY <1>1, <1>6 DEF e
  <2> QED
    BY <2>4, <2>5 DEF e
<1>8. Expired(i) <=> (d - now) % Word >= Half
  BY DEF Expired, d
<1>9. Back(a) = IF now >= a THEN now - a ELSE now - a + Word
  BY DEF Back
<1>10. a \in Int /\ a >= 0 /\ a < OldAge
  BY WordType
<1> QED
  BY <1>1, <1>2, <1>3, <1>4, <1>5, <1>6, <1>7, <1>8, <1>9, <1>10, WordType

-----------------------------------------------------------------------------
(* The invariant *)

LEMMA DhcpInitInv == DhcpInit => DhcpIInv
<1> SUFFICES ASSUME DhcpInit PROVE DhcpIInv
  OBVIOUS
<1>1. 0 \in Slot /\ 0 \in 0..Word - 1
  BY LeaseAssumption, WordType DEF Slot
<1>2. 0 \in 0..Word \div Coarse - 1
  BY <1>1, WordType, CoarseEnd
<1>3. DhcpTypeOK
  BY <1>1, <1>2, WordType DEF DhcpInit, DhcpTypeOK, NoLeases, NoneHeld, LongAgo
<1>4. ExpiryFollows /\ HoldersKept
  BY DEF DhcpInit, ExpiryFollows, HoldersKept, NoLeases, NoneHeld, LongAgo
<1> QED
  BY <1>3, <1>4 DEF DhcpIInv

\* The search frees an entry only when nobody may use its address any more.
LEMMA DiscoverInv ==
    ASSUME DhcpIInv, NEW c \in Clients, Discover(c)
    PROVE  DhcpIInv'
<1> USE DEF DhcpIInv
<1>1. \A i \in Slot : /\ lease'[i].expiry = lease[i].expiry
                      /\ lease'[i].mac = IF i \in Reclaimed(c) THEN Free ELSE lease[i].mac
  BY DEF Discover, DhcpTypeOK
<1>2. DhcpTypeOK'
  BY DEF Discover, DhcpTypeOK
<1>3. ExpiryFollows'
  BY <1>1 DEF Discover, ExpiryFollows, Back, Stamp
<1>4. HoldersKept'
  <2> SUFFICES ASSUME NEW e \in Clients, held[e].left > 0
               PROVE  held[e].addr \notin Reclaimed(c)
    BY <1>1 DEF Discover, HoldersKept, DhcpTypeOK
  <2> DEFINE i == held[e].addr
  <2>1. i \in Slot /\ held[e].left \in Nat /\ age[i] \in 0..OldAge
    BY DEF DhcpTypeOK
  <2>2. lease[i].mac = e /\ e # Free /\ held[e].left + age[i] <= LeaseTime
    BY LeaseAssumption DEF HoldersKept
  <2>3. age[i] \in 0..OldAge - 1 /\ age[i] <= LeaseTime
    BY <2>1, <2>2, WordType
  <2>4. lease[i].expiry = Stamp(Back(age[i]))
    BY <2>1, <2>2, <2>3, WordType DEF ExpiryFollows
  <2>5. ~Expired(i)
    BY <2>1, <2>3, <2>4, SignOfDifference, WordType
  <2> QED
    BY <2>5 DEF Reclaimed
<1> QED
  BY <1>2, <1>3, <1>4

LEMMA RequestInv ==
    ASSUME DhcpIInv, NEW c \in Clients, NEW i \in Slot, Request(c, i)
    PROVE  DhcpIInv'
<1> USE DEF DhcpIInv
<1>1. /\ lease' = [lease EXCEPT ![i] = [mac |-> c, expiry |-> Stamp(now)]]
      /\ age' = [age EXCEPT ![i] = 0] /\ now' = now
      /\ held' \in {held, [held EXCEPT ![c] = [addr |-> i, left |-> LeaseTime]]}
  BY DEF Request
<1>2. now \in 0..Word - 1 /\ Stamp(now) \in 0..Word \div Coarse - 1
  BY StampType DEF DhcpTypeOK
<1>3. DhcpTypeOK'
  BY <1>1, <1>2, WordType DEF DhcpTypeOK
<1>4. ExpiryFollows'
  <2> SUFFICES ASSUME NEW j \in Slot, lease'[j].mac # Free, age'[j] # OldAge
               PROVE  (lease[j].expiry = Stamp(Back(age[j])))'
    BY DEF ExpiryFollows, Slot, OldAge
  <2>1. CASE j = i
    <3>1. lease'[j].expiry = Stamp(now) /\ age'[j] = 0
      BY <1>1, <2>1 DEF DhcpTypeOK
    <3>2. Back(age[j])' = now
      BY <1>1, <1>2, <3>1 DEF Back
    <3> QED
      BY <3>1, <3>2 DEF Stamp, Word
  <2>2. CASE j # i
    <3>1. lease'[j] = lease[j] /\ age'[j] = age[j]
      BY <1>1, <2>2 DEF DhcpTypeOK
    <3> QED
      BY <1>1, <3>1 DEF ExpiryFollows, Back, Stamp, Word
  <2> QED
    BY <2>1, <2>2
<1>5. HoldersKept'
  <2> SUFFICES ASSUME NEW e \in Clients, held'[e].left > 0
               PROVE  /\ lease'[held'[e].addr].mac = e
                      /\ held'[e].left + age'[held'[e].addr] <= LeaseTime
    BY DEF HoldersKept
  <2>1. CASE held'[e] = held[e]
    <3> DEFINE j == held[e].addr
    <3>1. /\ j \in Slot /\ lease[j].mac = e /\ held[e].left + age[j] <= LeaseTime
          /\ held[e].left \in Nat /\ age[j] \in Nat
      BY <2>1 DEF HoldersKept, DhcpTypeOK
    <3>2. CASE j = i
      <4>1. lease[i].mac \in {c, Free} /\ e # Free
        BY LeaseAssumption DEF Request, MayHave
      <4>2. lease'[i].mac = c /\ age'[i] = 0
        BY <1>1 DEF DhcpTypeOK
      <4> QED
        BY <2>1, <3>1, <3>2, <4>1, <4>2, WordType
    <3>3. CASE j # i
      <4>1. lease'[j] = lease[j] /\ age'[j] = age[j]
        BY <1>1, <3>1, <3>3 DEF DhcpTypeOK
      <4> QED
        BY <2>1, <3>1, <4>1
    <3> QED
      BY <3>2, <3>3
  <2>2. CASE held'[e] # held[e]
    <3>1. e = c /\ held'[e] = [addr |-> i, left |-> LeaseTime]
      BY <1>1, <2>2 DEF DhcpTypeOK
    <3>2. lease'[i].mac = c /\ age'[i] = 0
      BY <1>1 DEF DhcpTypeOK
    <3> QED
      BY <3>1, <3>2, WordType
  <2> QED
    BY <2>1, <2>2
<1> QED
  BY <1>3, <1>4, <1>5

\* Clock and age move on together, so the time of the grant stays where it is.
LEMMA TickInv ==
    ASSUME DhcpIInv, Tick
    PROVE  DhcpIInv'
<1> USE DEF DhcpIInv
<1>1. now \in 0..Word - 1 /\ now' = IF now + 1 = Word THEN 0 ELSE now + 1
  <2>1. now \in 0..Word - 1 /\ now' = (now + 1) % Word
    BY DEF Tick, DhcpTypeOK
  <2> QED
    BY <2>1, ModWord, WordType
<1>2. \A i \in Slot : /\ age[i] \in 0..OldAge
                      /\ age'[i] = IF age[i] = OldAge THEN OldAge ELSE age[i] + 1
  BY DEF Tick, DhcpTypeOK
<1>3. \A c \in Clients : /\ held[c].left \in 0..LeaseTime /\ held[c].addr \in Slot
                         /\ held'[c].addr = held[c].addr
                         /\ held'[c].left = IF held[c].left = 0 THEN 0 ELSE held[c].left - 1
  BY DEF Tick, DhcpTypeOK
<1>4. DhcpTypeOK'
  <2>1. now' \in 0..Word - 1
    BY <1>1, WordType
  <2>2. age' \in [Slot -> 0..OldAge]
    <3>1. \A i \in Slot : (IF age[i] = OldAge THEN OldAge ELSE age[i] + 1) \in 0..OldAge
      BY <1>2, WordType
    <3> QED
      BY <3>1 DEF Tick
  <2>3. held' \in [Clients -> [addr : Slot, left : 0..LeaseTime]]
    <3>1. held' = [c \in Clients |-> [addr |-> held[c].addr,
                      left |-> IF held[c].left = 0 THEN 0 ELSE held[c].left - 1]]
      BY DEF Tick, DhcpTypeOK
    <3> QED
      BY <1>3, <3>1, WordType
  <2> QED
    BY <2>1, <2>2, <2>3 DEF Tick, DhcpTypeOK
<1>5. ExpiryFollows'
  <2> SUFFICES ASSUME NEW i \in Slot, lease[i].mac # Free, age'[i] # OldAge
               PROVE  (lease[i].expiry = Stamp(Back(age[i])))'
    BY DEF ExpiryFollows, Tick, Slot, OldAge
  <2>1. age[i] \in 0..OldAge - 1 /\ age'[i] = age[i] + 1 /\ age[i] + 1 < OldAge
    BY <1>2, WordType
  <2>2. lease[i].expiry = Stamp(Back(age[i]))
    BY <2>1, WordType DEF ExpiryFollows
  <2>3. (Back(age[i]))' = IF now' >= age[i] + 1 THEN now' - (age[i] + 1) ELSE now' - (age[i] + 1) + Word
    BY <2>1 DEF Back, Word
  <2>4. @ = Back(age[i])
    BY <1>1, <2>1, WordType DEF Back
  <2>5. Back(age[i])' = Back(age[i])
    BY <2>3, <2>4
  <2> QED
    BY <2>2, <2>5 DEF Stamp, Word, Tick
<1>6. HoldersKept'
  <2> SUFFICES ASSUME NEW c \in Clients, held'[c].left > 0
               PROVE  /\ lease[held[c].addr].mac = c
                      /\ held'[c].left + age'[held[c].addr] <= LeaseTime
    BY <1>3 DEF HoldersKept, Tick
  <2> QED
    BY <1>2, <1>3, WordType DEF HoldersKept
<1> QED
  BY <1>4, <1>5, <1>6

LEMMA DhcpNextInv == DhcpIInv /\ [DhcpNext]_dhcpVars => DhcpIInv'
<1> SUFFICES ASSUME DhcpIInv, [DhcpNext]_dhcpVars PROVE DhcpIInv'
  OBVIOUS
<1>1. CASE \E c \in Clients : Discover(c)
  BY <1>1, DiscoverInv
<1>2. CASE \E c \in Clients, i \in Slot : Request(c, i)
  BY <1>2, RequestInv
<1>3. CASE Tick
  BY <1>3, TickInv
<1>4. CASE Restart
  <2>1. DhcpInit'
    BY <1>4 DEF Restart, DhcpInit, NoLeases, NoneHeld, LongAgo, Slot, OldAge
  <2> QED
    BY <2>1, DhcpInitInv, PTL
<1>5. CASE UNCHANGED dhcpVars
  BY <1>5 DEF dhcpVars, DhcpIInv, DhcpTypeOK, ExpiryFollows, HoldersKept, Back, Stamp
<1> QED
  BY <1>1, <1>2, <1>3, <1>4, <1>5 DEF DhcpNext

-----------------------------------------------------------------------------
(* Theorems *)

\* Entries, clock and histories keep their types; in particular an expiry fits
\* its sixteen bits (dhcp_server.h:36).
THEOREM DhcpTypeCorrect == DhcpSpec => []DhcpTypeOK
<1>1. DhcpIInv => DhcpTypeOK
  BY DEF DhcpIInv
<1> QED
  BY <1>1, DhcpInitInv, DhcpNextInv, PTL DEF DhcpSpec

\* No two clients may use the same address at once (dhcp_server.c:217-229,
\* 257-265).
THEOREM LeasesExclusive == DhcpSpec => []NoDoubleLease
<1>1. DhcpIInv => NoDoubleLease
  BY DEF DhcpIInv, HoldersKept, NoDoubleLease
<1> QED
  BY <1>1, DhcpInitInv, DhcpNextInv, PTL DEF DhcpSpec

\* A client is turned away only while the addresses are taken, or when an end
\* lies so far back that it seems to lie ahead (dhcp_server.c:224-233).
THEOREM AddressesComeBack == DhcpSpec => []RefusedOnlyWhenFull
<1>1. DhcpIInv => RefusedOnlyWhenFull
  <2> SUFFICES ASSUME DhcpIInv, NEW c \in Clients, Offered(c) = {}, NEW i \in Slot,
                      age[i] # OldAge
               PROVE  age[i] < LeaseTime + Coarse
    BY DEF RefusedOnlyWhenFull
  <2>1. lease[i].mac # Free /\ ~Expired(i)
    BY DEF Offered, Available
  <2>2. age[i] \in 0..OldAge - 1
    <3>1. age[i] \in 0..OldAge
      BY DEF DhcpIInv, DhcpTypeOK
    <3> QED
      BY <3>1, WordType
  <2>3. lease[i].expiry = Stamp(Back(age[i]))
    BY <2>1, WordType DEF DhcpIInv, ExpiryFollows
  <2>4. ~(age[i] >= LeaseTime + Coarse)
    BY <2>1, <2>2, <2>3, SignOfDifference DEF DhcpIInv
  <2> QED
    BY <2>2, <2>4, WordType
<1> QED
  BY <1>1, DhcpInitInv, DhcpNextInv, PTL DEF DhcpSpec

=============================================================================
