------------------------------ MODULE PalmCache ------------------------------
(***************************************************************************)
(* What the main program remembers of the Palm (src/src/spalm.c): each     *)
(* piece is asked for when an accessor first needs it, and kept.  An       *)
(* accessor says with palm_ok whether it could answer; its value alone     *)
(* does not tell, a failure gives the user ID of a blank Palm.             *)
(***************************************************************************)
EXTENDS Link

CONSTANTS
    Owners,    \* what a Palm can say of its user: [name, id]
    NoName,    \* the name of a user that has none
    Garbage,   \* what happens to be in memory
    NotYet,    \* not asked for yet
    Serials,   \* serial numbers
    NoSerial,  \* the empty string
    Special,   \* the serial number that all Visors have
    Devices    \* [rom, serial, card, hack]: PalmOS, numbers, use_card_serial

(* What can be read of the user of a Palm.                                 *)
Users == [name : {o.name : o \in Owners} \union {Garbage}, id : {o.id : o \in Owners}]

(* What is in memory by chance is taken to be no user's name.              *)
ASSUME CacheAssumption ==
    /\ \A o \in Owners : /\ o = [name |-> o.name, id |-> o.id] /\ o.id \in Nat
                         /\ {o.name, o.id} \cap {NotYet, Garbage} = {}
    /\ NoSerial \in Serials /\ Special \in Serials \ {NoSerial}
    /\ Devices \subseteq [rom : {2, 3, 5}, serial : Serials, card : Serials, hack : BOOLEAN]
    /\ NotYet \notin Serials \union Users

VARIABLES
    owner,   \* the user the Palm names
    device,  \* what kind of Palm it is
    cache,   \* struct Palm: what is known of it
    ask      \* the accessor that is running: where it is, and for what

cacheVars == <<owner, device, cache, ask>>

AskSteps == {"idle", "sys", "user", "netsync", "none", "token", "move", "blank", "feature", "card",
             "ok", "fail", "crashed"}
Wants == {"nothing", "user", "serial", "reload"}

CacheTypeOK ==
    /\ owner \in Owners /\ device \in Devices
    /\ cache \in [sys : BOOLEAN, netsync : BOOLEAN,
                  user : Users \union {NotYet}, serial : Serials \union {Garbage, NotYet}]
    /\ ask \in [at : AskSteps, want : Wants]

NoAsk == [at |-> "idle", want |-> "nothing"]

(* new_Palm: nothing is known.                                             *)
CacheInit ==
    /\ owner \in Owners /\ device \in Devices
    /\ cache = [sys |-> FALSE, user |-> NotYet, serial |-> NotYet, netsync |-> FALSE]
    /\ ask = NoAsk

(* Once the version of the ROM is known: only PalmOS 3 and 4 have a serial *)
(* number that can be read.                                                *)
SerialStep == IF device.rom = 3 THEN "token" ELSE "none"

(* palm_userid, palm_username, palm_lastsyncPC; palm_serial,               *)
(* palm_serial_len; palm_reload.                                           *)
AskUser   == ask' = [at |-> IF cache.user # NotYet THEN "ok" ELSE "user", want |-> "user"]
AskSerial == ask' = [want |-> "serial",
                     at |-> IF cache.serial # NotYet THEN "ok"
                            ELSE IF cache.sys THEN SerialStep ELSE "sys"]
Reload    == ask' = [at |-> "sys", want |-> "reload"]

Asking   == ask.at \notin {"idle", "ok", "fail", "crashed"}
Answered(s) == ask.at = s

AskGoes(step) == ask' = [ask EXCEPT !.at = step]

FetchSysinfo ==
    /\ ask.at = "sys"
    /\ \E o \in Request :
          /\ Take(o)
          /\ cache' = [cache EXCEPT !.sys = @ \/ o.result = "ok"]
          /\ AskGoes(IF o.result # "ok" THEN "fail"
                     ELSE IF ask.want = "serial" THEN SerialStep ELSE "user")
    /\ UNCHANGED <<owner, device>>

(* An answer without a user name leaves the array for it as it was.        *)
Read(o) == {[o EXCEPT !.name = n] : n \in IF o.name = NoName THEN {NoName, Garbage} ELSE {o.name}}

FetchUserinfo ==
    /\ ask.at = "user"
    /\ \E o \in Request, user \in Read(owner) :
          /\ Take(o)
          /\ cache' = [cache EXCEPT !.user = IF o.result = "ok" THEN user ELSE @]
          /\ AskGoes(IF o.result # "ok" THEN "fail"
                     ELSE IF ask.want = "reload" THEN "netsync" ELSE "ok")
    /\ UNCHANGED <<owner, device>>

(* That there is none is as good an answer as any.                         *)
FetchNetsyncinfo ==
    /\ ask.at = "netsync"
    /\ \E o \in Requests("ok", {"exists", "refused"}) :
          /\ Take(o)
          /\ cache' = [cache EXCEPT !.netsync = @ \/ o.result \in {"ok", "exists"}]
          /\ AskGoes(IF o.result \in {"ok", "exists"} THEN "ok" ELSE "fail")
    /\ UNCHANGED <<owner, device>>

HaveSerial(s) ==
    /\ cache' = [cache EXCEPT !.serial = s]
    /\ AskGoes(IF device.hack /\ s = NoSerial THEN "feature" ELSE "ok")

(* fetch_serial.  DlpRPC looks at the result of the write, but not at that *)
(* of the read: it takes apart whatever its pointer points to.             *)
Unread(o) ==
    /\ o.result = "failed"
    /\ \/ AskGoes("fail") /\ UNCHANGED cache
       \/ AskGoes("crashed") /\ UNCHANGED cache
       \/ AskGoes("ok") /\ cache' = [cache EXCEPT !.serial = Garbage]

(* Nor does it look at the Palm's error code: a number that the Palm will  *)
(* not tell the place of is one of no length.                              *)
RDLP_ROMToken ==
    /\ ask.at = "token"
    /\ \E o \in Request :
          /\ Take(o)
          /\ \/ o.result # "failed" /\ UNCHANGED cache
                /\ AskGoes(IF o.result = "ok" THEN "move" ELSE "blank")
             \/ Unread(o)
    /\ UNCHANGED <<owner, device>>

RDLP_MemMove ==
    /\ ask.at \in {"move", "blank"}
    /\ \E o \in Request :
          /\ Take(o)
          /\ \/ o.result # "failed"
                /\ HaveSerial(IF ask.at = "move" /\ o.result = "ok" THEN device.serial ELSE NoSerial)
             \/ Unread(o)
    /\ UNCHANGED <<owner, device>>

(* There is none to be read.                                               *)
NoSerialNumber ==
    /\ ask.at = "none" /\ HaveSerial(NoSerial)
    /\ UNCHANGED <<linkVars, owner, device>>

(* fetch_expcard_serial, with the option use_card_serial: what fails       *)
(* leaves the empty string.                                                *)
ReadFeature ==
    /\ ask.at = "feature"
    /\ IF device.rom = 2 THEN AskGoes("ok") /\ UNCHANGED linkVars
       ELSE \E o \in Request :
               Take(o) /\ AskGoes(IF o.result = "ok" THEN "card" ELSE "ok")
    /\ UNCHANGED <<owner, device, cache>>

ExpCardInfo ==
    /\ ask.at = "card"
    /\ \E o \in Request :
          /\ Take(o)
          /\ cache' = [cache EXCEPT !.serial = IF o.result = "ok" THEN device.card ELSE NoSerial]
    /\ AskGoes("ok") /\ UNCHANGED <<owner, device>>

CacheStep ==
    \/ FetchSysinfo \/ FetchUserinfo \/ FetchNetsyncinfo \/ NoSerialNumber
    \/ RDLP_ROMToken \/ RDLP_MemMove \/ ReadFeature \/ ExpCardInfo

Unique == cache.serial # Special  \* not PALMFL_SNUM_NOT_UNIQUE
=============================================================================
