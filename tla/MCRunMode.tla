----------------------------- MODULE MCRunMode -----------------------------
(* Values for module RunMode: two users, three kinds of serial number, an  *)
(* /etc/palms with a wildcard entry last.                                  *)
EXTENDS RunMode, TLC

CONSTANTS d1, d2, f1, f2, f3, ann, bob, anns, bobs, s1

User(n, k) == [name |-> n, id |-> k]
SomeOwners == {User(n, k) : n \in {ann, bob, NoName}, k \in {0, 1, 2}}

SomeSerials == {NoSerial, Special, s1}
Entry(s, n, k, l) == [serial |-> s, name |-> n, id |-> k, luser |-> l]
ByNumber == <<Entry(s1, bob, 2, bobs), Entry(NoSerial, ann, 1, anns), Entry(Star, NoName, 2, bobs)>>

Block(s, n, k, dflt) == [snum |-> s, name |-> n, id |-> k, default |-> dflt]
SomeBlocks == <<Block(NotYet, ann, NotYet, TRUE), Block(s1, bob, 2, FALSE)>>
OneBlock   == <<Block(s1, bob, 2, FALSE)>>

Kind(r, s, c, h) == [rom |-> r, serial |-> s, card |-> c, hack |-> h]
AnyDevice == {Kind(2, NoSerial, NoSerial, TRUE), Kind(5, NoSerial, NoSerial, FALSE),
              Kind(5, NoSerial, s1, TRUE), Kind(3, s1, NoSerial, FALSE),
              Kind(3, Special, NoSerial, FALSE)}
OneDevice == {Kind(3, s1, NoSerial, FALSE)}
NoNumber == {Kind(5, NoSerial, NoSerial, FALSE)}
MyUser == User(ann, 1)

OfNamed   == f1 :> d1 @@ f2 :> d1 @@ f3 :> d2
OfVersion == f1 :> 1 @@ f2 :> 2 @@ f3 :> 1
=============================================================================
