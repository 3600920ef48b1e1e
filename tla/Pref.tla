-------------------------------- MODULE Pref --------------------------------
(***************************************************************************)
(* The preference cache (src/src/pref.c): an item is downloaded when it is *)
(* first needed, from the saved or the unsaved preferences of the Palm, in *)
(* two requests, one for its size and one for its contents.                *)
(***************************************************************************)
EXTENDS Link

CONSTANTS
    Prefs,    \* the preferences that conduits name in the configuration
    SAVED, UNSAVED,
    Configs,  \* configurations: where to look for each; {} says nothing
    PrefOn    \* where the Palm has it, if anywhere

ASSUME PrefAssumption ==
    /\ SAVED # UNSAVED
    /\ Configs \subseteq [Prefs -> {{}, {SAVED}, {UNSAVED}}]
    /\ PrefOn \in [Prefs -> SUBSET {SAVED, UNSAVED}]

VARIABLES
    flags,  \* where the configuration says to look for each
    info,   \* contents_info of each item: not there, nothing found, found, or freed
    fetch   \* the FetchPrefItem in progress

prefVars == <<flags, info, fetch>>

Infos   == {"null", "empty", "found", "freed"}
NoFetch == [at |-> "idle", item |-> "none", from |-> SAVED]

PrefTypeOK ==
    /\ flags \in Configs
    /\ info \in [Prefs -> Infos]
    /\ \/ fetch = NoFetch
       \/ fetch \in [at : {"size", "contents", "got", "failed", "crashed"},
                     item : Prefs, from : {SAVED, UNSAVED}]

(* CacheFromConduits: an empty item for every preference.                  *)
PrefInit == flags \in Configs /\ info = [p \in Prefs |-> "null"] /\ fetch = NoFetch

(* FetchPrefItem.  An item that is to be looked for in the unsaved         *)
(* preferences only is not downloaded before its version is looked at.     *)
Fetched == {p \in Prefs : info[p] # "null"}
BeginFetch(p) ==
    fetch' = [at |-> IF flags[p] = {UNSAVED} THEN "crashed" ELSE "size",
              item |-> p, from |-> SAVED]
FetchGoes(step) == fetch' = [fetch EXCEPT !.at = step]

(* DownloadPrefItem frees the information on an error, and with it what    *)
(* the cache holds since the first download found nothing.                 *)
Freed == info' = [info EXCEPT ![fetch.item] = IF @ = "null" THEN @ ELSE "freed"]

Natural == IF fetch.from \in PrefOn[fetch.item] THEN "ok" ELSE "refused"

(* A mistake: a status other than success is an error, too.                *)
WrongReadSize ==
    /\ fetch.at = "size"
    /\ \E o \in Requests(Natural, {"refused"}) :
          /\ Take(o)
          /\ IF o.result = "ok" THEN FetchGoes("contents") /\ UNCHANGED info
             ELSE IF o.result = "refused" /\ fetch.from = SAVED /\ flags[fetch.item] = {}
             THEN fetch' = [fetch EXCEPT !.from = UNSAVED]
                  /\ info' = [info EXCEPT ![fetch.item] = "empty"]
             ELSE FetchGoes("failed") /\ Freed

(* The first request.  Nothing found in the one place leads to the other,  *)
(* if the configuration did not name the first.                            *)
ReadSize ==
    /\ fetch.at = "size"
    /\ \E o \in Requests(Natural, {"refused"}) :
          /\ Take(o)
          /\ CASE o.result = "ok" -> FetchGoes("contents") /\ UNCHANGED info
               [] o.result = "refused" ->
                    /\ info' = [info EXCEPT ![fetch.item] = "empty"]
                    /\ IF fetch.from = SAVED /\ flags[fetch.item] = {}
                       THEN fetch' = [fetch EXCEPT !.from = UNSAVED]
                       ELSE FetchGoes("got")
               [] OTHER -> FetchGoes("failed") /\ Freed

(* The second request.  A refusal passes for success.                      *)
ReadContents ==
    /\ fetch.at = "contents"
    /\ \E o \in Request :
          /\ Take(o)
          /\ IF o.result = "failed" THEN FetchGoes("failed") /\ Freed
             ELSE FetchGoes("got") /\ info' = [info EXCEPT ![fetch.item] = "found"]

PrefStep == (ReadSize \/ ReadContents) /\ UNCHANGED flags

(* GetPrefItem: "Returns a fully filled preference item or, if not found,  *)
(* returns NULL" (pref.c:346).  The item is empty or filled, never freed,  *)
(* as long as the connection holds.                                        *)
FreedOnlyWhenLost == \A p \in Prefs : info[p] = "freed" => wire = "down"
=============================================================================
