------------------------------ MODULE MCSmartFs ------------------------------
(* Small instances of SmartFs for TLC. *)
EXTENDS SmartFs

CONSTANTS short, other, long

(* With clusters of two units: a word ends in, at and behind a cluster,     *)
(* and begins in and at one.                                                *)
TwoWords == {<<2, 2>>, <<3, 3, 3>>}
OneSpace == <<1>>

(* Names that a handle keeps whole: up to 11 characters. *)
ShortNames == {short, other}
ShortKey   == [n \in ShortNames |-> n]
ShortSaved == [n \in ShortNames |-> n]

(* long is ABCDEFGH.TXT, of 12 characters; short is ABCDEFGH.TX, which is   *)
(* what a handle of long keeps.                                             *)
LongNames == {short, long}
LongKey   == [n \in LongNames |-> n]
LongSaved == [n \in LongNames |-> short]
=============================================================================
