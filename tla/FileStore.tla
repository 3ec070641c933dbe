------------------------------ MODULE FileStore ------------------------------
(***************************************************************************)
(* What the file system promises to the commands of the shell: a directory *)
(* of titles, and behind each of them the text that was stored under it.   *)
(* There are no clusters, no FAT and no sizes; nothing that is done to one *)
(* file is seen in another.  A word that is written goes in piece by piece *)
(* and may be given up in the middle, and then the command knows it; the   *)
(* space between two words may be missing without its knowing.  A write    *)
(* may also break the store; nothing is promised after that.               *)
(***************************************************************************)
EXTENDS Naturals, Sequences

CONSTANTS
    Entries,        \* the size of the directory
    Title, NoTitle,
    Words, Space    \* what is written: words, with a space between two

VARIABLES
    title,          \* of each entry of the directory
    content,        \* the text stored behind it
    mode,           \* what the running command is doing
    named,          \* the title it was given
    open,           \* the entry it works on, 0 for none
    rest,           \* what remains to be stored of the present word or space
    answer          \* what has been read so far

files     == <<title, content>>
storeVars == <<files, mode, named, open, rest, answer>>

File == 1 .. Entries
Titled(t) == {f \in File : title[f] = t}
First(S) == CHOOSE f \in S : \A g \in S : f <= g

Idle == mode' = "idle" /\ named' = NoTitle /\ open' = 0 /\ answer' = <<>>

Init ==
    /\ title = [f \in File |-> NoTitle] /\ content = [f \in File |-> <<>>]
    /\ mode = "idle" /\ named = NoTitle /\ open = 0
    /\ rest = <<>> /\ answer = <<>>

Format ==
    /\ mode = "idle"
    /\ title' = [f \in File |-> NoTitle] /\ content' = [f \in File |-> <<>>]
    /\ UNCHANGED <<mode, named, open, rest, answer>>

(* The first file of that title goes, with its text. *)
Remove(t) ==
    /\ mode = "idle" /\ Titled(t) # {}
    /\ title' = [title EXCEPT ![First(Titled(t))] = NoTitle]
    /\ content' = [content EXCEPT ![First(Titled(t))] = <<>>]
    /\ UNCHANGED <<mode, named, open, rest, answer>>

(* A new empty file if there is an entry left, beside others of its title. *)
Create(t) ==
    /\ mode = "idle"
    /\ mode' = "created" /\ named' = t
    /\ title' = IF Titled(NoTitle) = {} THEN title
                ELSE [title EXCEPT ![First(Titled(NoTitle))] = t]
    /\ UNCHANGED <<content, open, rest, answer>>

(* The first file of that title. *)
OpenFor(t, purpose) ==
    /\ Titled(t) # {}
    /\ mode' = purpose /\ named' = t /\ open' = First(Titled(t))
    /\ UNCHANGED <<files, rest, answer>>

OpenToWrite   == mode = "created" /\ OpenFor(named, "word")
OpenToRead(t) == mode = "idle" /\ OpenFor(t, "read")
NotThere      == mode = "created" /\ Titled(named) = {} /\ Idle /\ UNCHANGED <<files, rest>>

(* The next word, or the space before it. *)
Say(w) ==
    /\ rest = <<>>
    /\ \/ mode = "word" /\ w \in Words
       \/ mode = "space" /\ w = Space
    /\ rest' = w
    /\ UNCHANGED <<files, mode, named, open, answer>>

Said   == mode' = (IF mode = "word" THEN "space" ELSE "word") /\ rest' = <<>>
GiveUp == mode' = (IF mode = "word" THEN "failed" ELSE "word") /\ rest' = <<>>

(* A piece of it is stored: the last one, or one after which the rest is   *)
(* still to come or is given up.                                           *)
Store ==
    /\ mode \in {"word", "space"}
    /\ \E k \in 1 .. Len(rest) :
          /\ content' = [content EXCEPT ![open] = @ \o SubSeq(rest, 1, k)]
          /\ \/ k = Len(rest) /\ Said
             \/ k < Len(rest) /\ rest' = SubSeq(rest, k + 1, Len(rest)) /\ UNCHANGED mode
             \/ k < Len(rest) /\ GiveUp
    /\ UNCHANGED <<title, named, open, answer>>

StoreNothing ==
    /\ mode \in {"word", "space"}
    /\ GiveUp
    /\ UNCHANGED <<files, named, open, answer>>

(* Whatever may be found in the store from now on. *)
Break == mode \in {"word", "space", "broken"} /\ mode' = "broken"

(* A command ends well only with its last word stored to the end. *)
EndWrite ==
    /\ (mode = "space" /\ rest = <<>>) \/ mode = "failed"
    /\ Idle
    /\ UNCHANGED <<files, rest>>

Read ==
    /\ mode = "read"
    /\ \E k \in Len(answer) .. Len(content[open]) : answer' = SubSeq(content[open], 1, k)
    /\ UNCHANGED <<files, mode, named, open, rest>>

(* Reading ends with the whole text. *)
EndRead ==
    /\ mode = "read" /\ answer = content[open]
    /\ Idle
    /\ UNCHANGED <<files, rest>>

Next ==
    \/ Format
    \/ \E t \in Title : Remove(t) \/ Create(t) \/ OpenToRead(t)
    \/ OpenToWrite \/ NotThere
    \/ \E w \in Words \cup {Space} : Say(w)
    \/ Store \/ StoreNothing \/ Break \/ EndWrite
    \/ Read \/ EndRead

Spec == Init /\ [][Next]_storeVars
=============================================================================
