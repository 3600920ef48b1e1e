------------------------------- MODULE Lookup -------------------------------
(***************************************************************************)
(* Whose Palm is it?  The entries of /etc/palms (src/src/palment.c) and    *)
(* the PDA blocks of the configuration (src/src/pdablock.c), each a        *)
(* sequence in the order of its file, and how one of them is chosen.       *)
(***************************************************************************)
EXTENDS PalmCache, Sequences

CONSTANTS
    Star,     \* "*"
    Palments, \* <<[serial, name, id, luser, conf]>>; id 0 and empty strings match anything
    Blocks,   \* <<[snum, name, id, default]>>; NotYet stands for what is not given
    Accounts  \* the local users that there are

ASSUME LookupAssumption ==
    /\ Star \notin Serials
    /\ Palments \in Seq({Palments[i] : i \in DOMAIN Palments})
    /\ Blocks \in Seq({Blocks[i] : i \in DOMAIN Blocks})
    /\ \A i \in DOMAIN Palments : Palments[i].serial \in Serials \union {Star}

(* is_wildcard                                                             *)
Wildcards == {NoName, NoSerial, Star}

MatchSerial(e, snum) == e.serial = snum
MatchUser(e, user)   == (e.name \in Wildcards \/ e.name = user.name)
MatchId(e, user)     == (e.id = 0 \/ e.id = user.id)

FirstOf(S) == IF S = {} THEN 0 ELSE CHOOSE i \in S : \A j \in S : i <= j

(* A mistake: a number that is not given does not match.                   *)
WrongExact(snum, user) ==
    FirstOf({i \in DOMAIN Palments : LET e == Palments[i] IN
        (e.serial \in Wildcards \/ MatchSerial(e, snum)) /\ MatchUser(e, user)})

(* find_palment with PMATCH_EXACT, and with PMATCH_UNIQUESNUM; 0 for none. *)
FindExact(snum, user) ==
    FirstOf({i \in DOMAIN Palments : LET e == Palments[i] IN
        /\ e.serial \in Wildcards \/ MatchSerial(e, snum)
        /\ MatchUser(e, user) /\ MatchId(e, user)})

FindUnique(snum) == FirstOf({i \in DOMAIN Palments : Unique /\ MatchSerial(Palments[i], snum)})

(* find_pda_block: the first block that matches and is not a default, or   *)
(* the last default that does; 0 for none.                                 *)
Fits(b, snum) == b.snum \in {NotYet, snum}
FitsUser(b, user) == b.id \in {NotYet, user.id} /\ b.name \in {NotYet, user.name}

FindBlock(fitting) ==
    LET firm == {i \in fitting : ~Blocks[i].default}
    IN  IF firm # {} THEN FirstOf(firm)
        ELSE IF fitting = {} THEN 0 ELSE CHOOSE i \in fitting : \A j \in fitting : j <= i

BlockFor(snum, user) == FindBlock({i \in DOMAIN Blocks : Fits(Blocks[i], snum) /\ FitsUser(Blocks[i], user)})
BlockForSerial(snum) == FindBlock({i \in DOMAIN Blocks : Fits(Blocks[i], snum)})

(* getpasswd_from_palment                                                  *)
HasAccount(i) == Palments[i].luser \in Accounts
=============================================================================
