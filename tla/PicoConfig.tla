----------------------------- MODULE PicoConfig -----------------------------
(***************************************************************************)
(* The settings of the Pico W sensor: from the flash sector that keeps     *)
(* them, through the boot (main.c) and the setup mode (access_point.c,     *)
(* cgi_handler in http_server.c), to the API that changes them in run mode *)
(* (api_server.c).  The web handlers run in interrupts: a handler that     *)
(* writes the flash holds main() up until it is done, but the power can    *)
(* fail, and the watchdog that main() has armed can fire, between and      *)
(* within the erasing and the programming.                                 *)
(*                                                                         *)
(* Settings are records of field values that stand for the ones the code   *)
(* tells apart: "erased" bytes (0xFF) are neither empty nor text, and for  *)
(* an address they are the code's "none".                                  *)
(***************************************************************************)
CONSTANTS
    Networks,   \* what a user may enter: SSID, password and LAN addresses
    Brokers,    \* MQTT broker addresses a user may enter
    Topics      \* MQTT topics a user may enter
ASSUME ValuesAssumption ==
    /\ {"erased", "empty", "partial"} \cap Networks = {}
    /\ {"none", "default"} \cap Brokers = {}
    /\ {"erased", "empty", "default"} \cap Topics = {}

VARIABLES
    flash,         \* the settings in page 0 of the last sector
    ram,           \* g_config, which _c, cfg and g_cfg point to
    at,            \* where main() is
    write,         \* the flash_write_page() under way: who writes what
    isConfigured,
    restart,       \* restart_requested
    cgi,           \* the handler of /setup.cgi is registered
    acked,         \* history: the settings the user was last told are saved, if any
    cut,           \* history: a write was cut by a reset
    rejected       \* history: a form was rejected since then

vars == <<flash, ram, at, write, isConfigured, restart, cgi, acked, cut, rejected>>

Config == [magic   : BOOLEAN,
           network : Networks \cup {"erased", "empty", "partial"},
           broker  : Brokers \cup {"none", "default"},
           topic   : Topics \cup {"erased", "empty", "default"},
           enabled : {"yes", "no", "erased"}]

ErasedPage == [magic |-> FALSE, network |-> "erased", broker |-> "none",
               topic |-> "erased", enabled |-> "erased"]

\* A page written by a firmware that had no MQTT settings.
OldPage(n) == [ErasedPage EXCEPT !.magic = TRUE, !.network = n]

NoWrite == [by |-> "none"]
Writes == [by : {"patch", "setup", "cgi", "api"}, data : Config, step : {"erase", "program"}]

TypeOK ==
    /\ flash \in Config
    /\ ram \in Config
    /\ at \in {"boot", "ap", "grace", "join", "run", "stopping", "armed", "ended"}
    /\ write \in Writes \cup {NoWrite}
    /\ isConfigured \in BOOLEAN
    /\ restart \in BOOLEAN
    /\ cgi \in BOOLEAN
    /\ acked \in SUBSET Config
    /\ cut \in BOOLEAN
    /\ rejected \in BOOLEAN

Init ==
    /\ flash \in {ErasedPage} \cup {OldPage(n) : n \in Networks}
    /\ ram = ErasedPage
    /\ at = "boot"
    /\ write = NoWrite
    /\ isConfigured = FALSE
    /\ restart = FALSE
    /\ cgi = FALSE
    /\ acked = {}
    /\ cut = FALSE
    /\ rejected = FALSE

Idle == write.by = "none"

-----------------------------------------------------------------------------
(* The flash (flash_program.c).                                            *)

\* flash_write_page() copies what it is given before it touches the flash.
StartWrite(who, c) == write' = [by |-> who, data |-> c, step |-> "erase"]

\* flash_erase_page(): the whole sector; its other pages are written back.
EraseSector ==
    /\ ~Idle /\ write.step = "erase"
    /\ flash' = ErasedPage
    /\ write' = [write EXCEPT !.step = "program"]
    /\ UNCHANGED <<ram, at, isConfigured, restart, cgi, acked, cut, rejected>>

\* What the writer does when the page is programmed: main() goes on, a
\* handler asks for the restart and answers that the settings are saved.
AfterWrite ==
    CASE write.by \in {"patch", "setup"} ->
            at' = "join" /\ UNCHANGED <<ram, restart, acked, cut, rejected>>
      [] write.by = "cgi" ->
            /\ restart' = TRUE /\ acked' = {write.data} /\ cut' = FALSE /\ rejected' = FALSE
            /\ UNCHANGED <<at, ram>>
      [] write.by = "api" ->
            /\ ram' = write.data
            /\ restart' = TRUE /\ acked' = {write.data} /\ cut' = FALSE /\ rejected' = FALSE
            /\ UNCHANGED at

\* Mutant: the buffer is filled with 0xFF after the copy.
ProgramPageBlank ==
    /\ ~Idle /\ write.step = "program"
    /\ flash' = ErasedPage
    /\ AfterWrite
    /\ write' = NoWrite
    /\ UNCHANGED <<isConfigured, cgi>>

\* Mutant: the length of what is written ends before the MQTT fields.
ProgramPageShort ==
    /\ ~Idle /\ write.step = "program"
    /\ flash' = [ErasedPage EXCEPT !.magic = write.data.magic, !.network = write.data.network]
    /\ AfterWrite
    /\ write' = NoWrite
    /\ UNCHANGED <<isConfigured, cgi>>

ProgramPage ==
    /\ ~Idle /\ write.step = "program"
    /\ flash' = write.data
    /\ AfterWrite
    /\ write' = NoWrite
    /\ UNCHANGED <<isConfigured, cgi>>

\* What is left of a page when the device is reset while it is erased or
\* written: its first bytes, which hold the magic number, all of it, or nothing.
Torn(c) == {c, ErasedPage, [ErasedPage EXCEPT !.magic = c.magic]}

\* The device starts afresh, whatever it was doing.
Reset ==
    /\ IF Idle
       THEN UNCHANGED <<flash, cut>>
       ELSE /\ flash' \in Torn(IF write.step = "erase" THEN flash ELSE write.data)
            /\ cut' = TRUE
    /\ at' = "boot"
    /\ ram' = ErasedPage
    /\ write' = NoWrite
    /\ isConfigured' = FALSE /\ restart' = FALSE /\ cgi' = FALSE
    /\ UNCHANGED <<acked, rejected>>

PowerCut == Reset

-----------------------------------------------------------------------------
(* main()                                                                  *)

\* Missing MQTT fields get their defaults: a broker that is all zeros or all
\* ones, a topic whose first byte is zero.
Patched(c) == [c EXCEPT !.broker = IF c.broker = "none" THEN "default" ELSE c.broker,
                        !.topic  = IF c.topic = "empty" THEN "default" ELSE c.topic]

\* run_access_point() blanks the entries of a page that was never written.
Blanked(c) == IF c.magic THEN c ELSE [c EXCEPT !.network = "empty"]

\* The button is held, or there are no settings.
EnterSetup ==
    /\ at = "boot" /\ Idle
    /\ ram' = Blanked(flash)
    /\ cgi' = TRUE
    /\ at' = "ap"
    /\ UNCHANGED <<flash, write, isConfigured, restart, acked, cut, rejected>>

\* Mutant: settings that were completed are not stored.
LoadUnsaved ==
    /\ at = "boot" /\ Idle /\ flash.magic
    /\ ram' = Patched(flash)
    /\ at' = "join" /\ UNCHANGED write
    /\ UNCHANGED <<flash, isConfigured, restart, cgi, acked, cut, rejected>>

\* The settings are read, completed, and stored if that changed them.
Load ==
    /\ at = "boot" /\ Idle /\ flash.magic
    /\ ram' = Patched(flash)
    /\ IF Patched(flash) # flash
       THEN StartWrite("patch", Patched(flash)) /\ UNCHANGED at
       ELSE at' = "join" /\ UNCHANGED write
    /\ UNCHANGED <<flash, isConfigured, restart, cgi, acked, cut, rejected>>

\* The loop of run_access_point() ends; the handlers have another 1.5 seconds.
Configured ==
    /\ at = "ap" /\ Idle /\ isConfigured
    /\ at' = "grace"
    /\ UNCHANGED <<flash, ram, write, isConfigured, restart, cgi, acked, cut, rejected>>

\* Mutant: the magic number goes in, the missing fields do not.
StoreUnpatched ==
    /\ at = "grace" /\ Idle
    /\ ram' = [ram EXCEPT !.magic = TRUE]
    /\ StartWrite("setup", ram')
    /\ UNCHANGED <<flash, at, isConfigured, restart, cgi, acked, cut, rejected>>

\* The access point is gone; main() completes the settings and stores them again.
StoreSetup ==
    /\ at = "grace" /\ Idle
    /\ ram' = Patched([ram EXCEPT !.magic = TRUE])
    /\ StartWrite("setup", ram')
    /\ UNCHANGED <<flash, at, isConfigured, restart, cgi, acked, cut, rejected>>

\* 30 seconds to join the network, then main() returns.  Wrong addresses do not
\* keep it from joining.  After a setup main() ends here, too, if the second
\* httpd_init() of this boot (main.c:365, after access_point.c:173) does not
\* return: the port is bound already, which lwIP may take for a fatal error.
Join ==
    /\ at = "join" /\ Idle
    /\ \/ ram.network \in Networks \cup {"partial"} /\ at' = "run"
       \/ at' = "ended"
    /\ UNCHANGED <<flash, ram, write, isConfigured, restart, cgi, acked, cut, rejected>>

\* The main loop; the handlers have three seconds to send their answers.
StopLoop ==
    /\ at = "run" /\ Idle /\ restart
    /\ at' = "stopping"
    /\ UNCHANGED <<flash, ram, write, isConfigured, restart, cgi, acked, cut, rejected>>

\* main() arms the watchdog and waits for it; the handlers go on.
ArmWatchdog ==
    /\ at = "stopping" /\ Idle
    /\ at' = "armed"
    /\ UNCHANGED <<flash, ram, write, isConfigured, restart, cgi, acked, cut, rejected>>

Main == EnterSetup \/ Load \/ Configured \/ StoreSetup \/ Join \/ StopLoop \/ ArmWatchdog

\* 100 milliseconds later, in the middle of a handler's write or not.
WatchdogReset == at = "armed" /\ Reset

-----------------------------------------------------------------------------
(* cgi_handler(), /setup.cgi                                               *)

\* The parameters of a form: "absent" ones leave their field alone, an
\* address byte out of range makes the network "bad".
Forms == [network : Networks \cup {"absent", "bad"},
          mqtt    : BOOLEAN,      \* any MQTT parameter
          ticked  : BOOLEAN,      \* mqtt_enabled
          broker  : Brokers \cup {"absent", "none"},
          topic   : Topics \cup {"absent", "empty"}]

\* A form without MQTT parameters, as the setup page sends it, or with them.
IsForm(f) == ~f.mqtt => ~f.ticked /\ f.broker = "absent" /\ f.topic = "absent"

\* Mutant: the topic of a form without one.
TopicOfForm(f) == f.topic

TopicAfter(f) ==
    LET topic == IF f.topic = "absent" THEN ram.topic ELSE f.topic
    IN  IF ~f.mqtt \/ topic # "empty" THEN topic
        ELSE IF flash.magic /\ flash.topic # "empty" THEN flash.topic ELSE "default"

Edited(f) ==
    [magic   |-> ram.magic,
     network |-> IF f.network = "absent" THEN ram.network
                 ELSE IF f.network = "bad" THEN "partial" ELSE f.network,
     broker  |-> IF f.broker = "absent" THEN ram.broker ELSE f.broker,
     topic   |-> TopicAfter(f),
     enabled |-> IF ~f.mqtt THEN ram.enabled ELSE IF f.ticked THEN "yes" ELSE "no"]

\* The access point is up, or the network the device has joined.
Reachable == at \in {"ap", "grace", "run", "stopping", "armed"} /\ Idle

\* Mutant: the loop of run_access_point() is not told.
SubmitUnseen(f) ==
    /\ Reachable /\ cgi
    /\ IF f.network = "bad"
       THEN /\ ram' = Edited(f)
            /\ rejected' = TRUE
            /\ UNCHANGED <<isConfigured, write>>
       ELSE /\ ram' = [Edited(f) EXCEPT !.magic = TRUE]
            /\ StartWrite("cgi", ram')
            /\ UNCHANGED <<rejected, isConfigured>>
    /\ UNCHANGED <<flash, at, restart, cgi, acked, cut>>

\* The settings are edited in place, whether or not the form is then rejected.
Submit(f) ==
    /\ Reachable /\ cgi
    /\ IF f.network = "bad"
       THEN /\ ram' = Edited(f)
            /\ rejected' = TRUE
            /\ UNCHANGED <<isConfigured, write>>
       ELSE /\ ram' = [Edited(f) EXCEPT !.magic = TRUE]
            /\ isConfigured' = TRUE
            /\ StartWrite("cgi", ram')
            /\ UNCHANGED rejected
    /\ UNCHANGED <<flash, at, restart, cgi, acked, cut>>

-----------------------------------------------------------------------------
(* api_handle_post_config(), POST /api/config                              *)

Posts == [enabled : {"absent", "yes", "no"},
          broker  : Brokers \cup {"absent", "none", "invalid"},
          topic   : Topics \cup {"absent", "empty"}]

\* A field there is, and none of a wrong value: otherwise 400 and no change.
Acceptable(p) ==
    /\ ~(p.enabled = "absent" /\ p.broker = "absent" /\ p.topic = "absent")
    /\ p.broker # "invalid" /\ p.topic # "empty"

NewConfig(p) ==
    [ram EXCEPT !.magic   = TRUE,
                !.enabled = IF p.enabled = "absent" THEN ram.enabled ELSE p.enabled,
                !.broker  = IF p.broker = "absent" THEN ram.broker ELSE p.broker,
                !.topic   = IF p.topic = "absent" THEN ram.topic ELSE p.topic]

Post(p) ==
    /\ at \in {"run", "stopping", "armed"} /\ Idle
    /\ Acceptable(p)
    /\ StartWrite("api", NewConfig(p))
    /\ UNCHANGED <<flash, ram, at, isConfigured, restart, cgi, acked, cut, rejected>>

-----------------------------------------------------------------------------
Next ==
    \/ EraseSector \/ ProgramPage
    \/ Main
    \/ \E f \in Forms : IsForm(f) /\ Submit(f)
    \/ \E p \in Posts : Post(p)
    \/ WatchdogReset
    \/ PowerCut

\* A write ends, and main() gets on between the requests, however many come:
\* its waits are timed.  The watchdog fires.
Fairness == WF_vars(EraseSector \/ ProgramPage) /\ SF_vars(Main) /\ WF_vars(WatchdogReset)

Spec == Init /\ [][Next]_vars /\ Fairness
-----------------------------------------------------------------------------
(* Properties.                                                             *)

\* What the user was told is saved is in the flash, through every restart,
\* unless a later form was rejected, whose entries main() stores with the rest
\* (main.c:297), or a later write was cut: by a power failure, or without one by
\* the watchdog, which main() arms while the handlers still take requests
\* (main.c:416, api_server.c:349).  Outside a write no reset loses anything.
AckedIsStored ==
    Idle /\ ~cut /\ ~rejected => \A c \in acked : flash \in {c, Patched(c)}

\* The device runs with the settings that are stored: a restart changes
\* nothing but what was saved since (main.c:266 and :312, api_server.c:350).
RunsStored == at = "run" /\ Idle /\ ~rejected => ram = flash

\* Whichever way the settings came, through the setup, from an older firmware
\* or after a cut write, MQTT starts with a broker and without an empty topic
\* (main.c:288 and :301); and, also after rejected forms, with a topic if the user
\* was ever told that one is saved.  It may start with a topic of erased bytes,
\* which are not taken for missing (main.c:293, :307): after a first setup by the
\* page's form, which has no MQTT fields, and from an old page.
JoinsPatched ==
    at = "join" =>
        /\ ram.magic /\ ram.broker # "none" /\ ram.topic # "empty"
        /\ ~cut => \A c \in acked : c.topic # "erased" => ram.topic # "erased"

\* Settings that are saved take effect: the device restarts, unless main()
\* ended before its loop, because it could not join the network (main.c:346) or
\* could not start its web server a second time (main.c:365).
SaveTakesEffect == restart ~> (~restart \/ at = "ended")

=============================================================================
