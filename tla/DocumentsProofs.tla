-------------------------- MODULE DocumentsProofs ---------------------------
(***************************************************************************)
(* Proofs about the language server's documents, for any number of texts   *)
(* and of notifications on their way: the server holds the text the editor *)
(* shows, no diagnostics are shown but those of the text it holds, and the *)
(* indexes follow the editor and the disk unless a handler comes in the    *)
(* middle of a scan.                                                       *)
(***************************************************************************)
EXTENDS Documents, TLAPS

ChangeSet == [kind : Kinds, from : Int, to : Int]
MsgSet    == [kind : {"open", "change", "close", "written", "deleted"}, ver : Nat, text : Int,
              changes : Seq(ChangeSet)]

EditSet   == [open : BOOLEAN, ver : Nat, text : Int]
DocSet    == [open : BOOLEAN, ver : Nat, text : Int, desynced : BOOLEAN]

(* The notifications about the document, and those that carry its text.     *)
IsDoc(m)    == m.kind \in {"open", "change", "close"}
Carries(m)  == m.kind \in {"open", "change"}

(* The changes of one didChange are made one in the text of the other.      *)
WellMade(m) ==
  m.kind = "change" =>
    \/ Len(m.changes) = 1 /\ m.changes[1].to = m.text
    \/ Len(m.changes) = 2 /\ m.changes[1].to = m.changes[2].from /\ m.changes[2].to = m.text

(* Once the first i - 1 notifications of q are handled, the document will   *)
(* be open with this text, at a version no later than this one: the last of *)
(* them about the document says so, or none is and it is so now.            *)
Leads(q, d, s, i, text, ver) ==
  \/ \E j \in 1..(i - 1) :
       /\ Carries(q[j]) /\ q[j].text = text /\ q[j].ver <= ver
       /\ \A k \in (j + 1)..(i - 1) : ~IsDoc(q[k])
  \/ /\ \A k \in 1..(i - 1) : ~IsDoc(q[k])
     /\ d.open /\ s = text /\ d.ver <= ver

(* Every change on its way was made in the text the server will have by     *)
(* then, and so will be the editor's next.                                  *)
PipeInv ==
  /\ inbox \in Seq(MsgSet)
  /\ \A i \in 1..Len(inbox) : WellMade(inbox[i])
  /\ \A i \in 1..Len(inbox) : inbox[i].kind = "change" =>
       Leads(inbox, doc, seen, i, inbox[i].changes[1].from, inbox[i].ver - 1)
  /\ client.open => Leads(inbox, doc, seen, Len(inbox) + 1, client.text, client.ver)
  /\ client \in EditSet /\ doc \in DocSet /\ disk \in Int /\ fresh \in Nat

DocInv ==
  /\ PipeInv
  /\ snap # None => doc.open /\ snap = seen
  /\ InStep /\ ShownIsHeld

(* Handling the first notification brings the rest closer.                  *)
LEMMA LeadsTail ==
  ASSUME NEW q \in Seq(MsgSet), q # << >>, NEW d, NEW s, NEW e, NEW t, e.ver \in Nat,
         Carries(q[1]) => e.open /\ t = q[1].text /\ e.ver <= q[1].ver,
         ~IsDoc(q[1]) => e = d /\ t = s,
         NEW i \in 1..Len(q), NEW text, NEW ver \in Int, Leads(q, d, s, i + 1, text, ver)
  PROVE  Leads(Tail(q), e, t, i, text, ver)
<1>1. \A k \in 1..(i - 1) : Tail(q)[k] = q[k + 1] /\ k + 1 \in 2..i
  OBVIOUS
<1>2. q[1].ver \in Nat
  <2>1. q[1] \in MsgSet
    OBVIOUS
  <2> QED BY <2>1 DEF MsgSet
<1> DEFINE r == Tail(q)
<1> HIDE DEF r
<1>3. CASE \E j \in 1..i : /\ Carries(q[j]) /\ q[j].text = text /\ q[j].ver <= ver
                           /\ \A k \in (j + 1)..i : ~IsDoc(q[k])
  <2>1. PICK j \in 1..i : /\ Carries(q[j]) /\ q[j].text = text /\ q[j].ver <= ver
                          /\ \A k \in (j + 1)..i : ~IsDoc(q[k])
    BY <1>3
  <2>2. CASE j = 1
    <3>1. \A k \in 1..(i - 1) : ~IsDoc(Tail(q)[k])
      BY <1>1, <2>1, <2>2
    <3>2. e.open /\ t = text /\ e.ver <= ver
      BY <1>2, <2>1, <2>2
    <3> QED BY <3>1, <3>2 DEF Leads
  <2>3. CASE j # 1
    <3>1. j - 1 \in 1..(i - 1) /\ Tail(q)[j - 1] = q[j]
      BY <1>1, <2>3
    <3>2. ASSUME NEW k \in ((j - 1) + 1)..(i - 1) PROVE ~IsDoc(Tail(q)[k])
      <4>1. k \in 1..(i - 1) /\ k + 1 \in (j + 1)..i
        BY <2>3
      <4> QED BY <1>1, <2>1, <4>1
    <3> QED BY <2>1, <3>1, <3>2, SMTT(30) DEF Leads
  <2> QED BY <2>2, <2>3
<1>4. CASE /\ \A k \in 1..i : ~IsDoc(q[k])
           /\ d.open /\ s = text /\ d.ver <= ver
  <2>1. e = d /\ t = s
    BY <1>4
  <2>2. \A k \in 1..(i - 1) : ~IsDoc(Tail(q)[k])
    BY <1>1, <1>4
  <2> QED BY <1>4, <2>1, <2>2 DEF Leads
<1>5. (i + 1) - 1 = i
  OBVIOUS
<1> QED BY <1>3, <1>4, <1>5 DEF Leads

(* What comes later does not matter.                                        *)
LEMMA LeadsAppend ==
  ASSUME NEW q \in Seq(MsgSet), NEW m \in MsgSet, NEW d, NEW s,
         NEW i \in 1..(Len(q) + 1), NEW text, NEW ver, Leads(q, d, s, i, text, ver)
  PROVE  Leads(Append(q, m), d, s, i, text, ver)
<1>1. \A k \in 1..(i - 1) : Append(q, m)[k] = q[k]
  OBVIOUS
<1> DEFINE r == Append(q, m)
<1>2. \A k \in 1..(i - 1) : r[k] = q[k]
  BY <1>1
<1> HIDE DEF r
<1>3. \A j \in 1..(i - 1) : \A k \in (j + 1)..(i - 1) : k \in 1..(i - 1)
  OBVIOUS
<1>4. Leads(r, d, s, i, text, ver)
  BY <1>2, <1>3 DEF Leads
<1> QED BY <1>4 DEF r

(* The last notification says what follows it, unless it is not about the   *)
(* document.                                                                *)
LEMMA LeadsLast ==
  ASSUME NEW q \in Seq(MsgSet), NEW m \in MsgSet, NEW d, NEW s, NEW text, NEW ver \in Int,
         \/ Carries(m) /\ m.text = text /\ m.ver <= ver
         \/ ~IsDoc(m) /\ Leads(q, d, s, Len(q) + 1, text, ver)
  PROVE  Leads(Append(q, m), d, s, Len(q) + 2, text, ver)
<1> DEFINE n == Len(q)
           r == Append(q, m)
<1>1. n \in Nat /\ r[n + 1] = m /\ \A k \in 1..n : r[k] = q[k]
  OBVIOUS
<1> HIDE DEF n, r
<1>2. (n + 2) - 1 = n + 1 /\ (n + 1) - 1 = n
  BY <1>1
<1>3. CASE Carries(m) /\ m.text = text /\ m.ver <= ver
  <2>1. n + 1 \in 1..(n + 1) /\ \A k \in ((n + 1) + 1)..(n + 1) : FALSE
    BY <1>1
  <2>2. Leads(r, d, s, n + 2, text, ver)
    BY <1>1, <1>2, <1>3, <2>1 DEF Leads
  <2> QED BY <2>2 DEF n, r
<1>4. CASE ~IsDoc(m) /\ Leads(q, d, s, n + 1, text, ver)
  <2>1. CASE \E j \in 1..n : /\ Carries(q[j]) /\ q[j].text = text /\ q[j].ver <= ver
                             /\ \A k \in (j + 1)..n : ~IsDoc(q[k])
    <3>1. PICK j \in 1..n : /\ Carries(q[j]) /\ q[j].text = text /\ q[j].ver <= ver
                            /\ \A k \in (j + 1)..n : ~IsDoc(q[k])
      BY <2>1
    <3>2. j \in 1..(n + 1) /\ r[j] = q[j]
      BY <1>1
    <3>3. ASSUME NEW k \in (j + 1)..(n + 1) PROVE ~IsDoc(r[k])
      <4>1. CASE k = n + 1
        BY <1>1, <1>4, <4>1
      <4>2. CASE k # n + 1
        <5>1. k \in (j + 1)..n /\ k \in 1..n
          BY <1>1, <4>2
        <5> QED BY <1>1, <3>1, <5>1
      <4> QED BY <4>1, <4>2
    <3> QED BY <1>2, <3>1, <3>2, <3>3 DEF Leads, n, r
  <2>2. CASE /\ \A k \in 1..n : ~IsDoc(q[k])
             /\ d.open /\ s = text /\ d.ver <= ver
    <3>1. ASSUME NEW k \in 1..(n + 1) PROVE ~IsDoc(r[k])
      <4>1. CASE k = n + 1
        BY <1>1, <1>4, <4>1
      <4>2. CASE k # n + 1
        <5>1. k \in 1..n
          BY <1>1, <4>2
        <5> QED BY <1>1, <2>2, <5>1
      <4> QED BY <4>1, <4>2
    <3> QED BY <1>2, <2>2, <3>1 DEF Leads, n, r
  <2> QED BY <1>2, <1>4, <2>1, <2>2, SMTT(30) DEF Leads
<1> QED BY <1>3, <1>4 DEF n

(* The editor or the disk sends a notification.                             *)
LEMMA SendInv ==
  ASSUME DocInv, NEW m \in MsgSet, WellMade(m), inbox' = Append(inbox, m),
         UNCHANGED <<doc, snap, noticed, shown, seen>>,
         m.kind = "change" => Leads(inbox, doc, seen, Len(inbox) + 1, m.changes[1].from, m.ver - 1),
         client' \in EditSet, disk' \in Int, fresh' \in Nat,
         client'.open => \/ Carries(m) /\ m.text = client'.text /\ m.ver <= client'.ver
                         \/ ~IsDoc(m) /\ client' = client
  PROVE  DocInv'
<1> DEFINE n == Len(inbox)
<1>1. inbox \in Seq(MsgSet)
  BY DEF DocInv, PipeInv
<1>2. /\ n \in Nat /\ inbox' \in Seq(MsgSet) /\ Len(inbox') = n + 1
      /\ inbox'[n + 1] = m /\ \A i \in 1..n : inbox'[i] = inbox[i]
  BY <1>1
<1>3. ASSUME NEW i \in 1..(n + 1)
      PROVE  /\ WellMade(inbox'[i])
             /\ inbox'[i].kind = "change" =>
                  Leads(inbox', doc, seen, i, inbox'[i].changes[1].from, inbox'[i].ver - 1)
  <2>1. CASE i = n + 1
    <3>1. inbox'[i] = m
      BY <1>2, <2>1
    <3>2. ASSUME m.kind = "change"
          PROVE  Leads(Append(inbox, m), doc, seen, n + 1, m.changes[1].from, m.ver - 1)
      BY <1>1, <1>2, <3>2, LeadsAppend
    <3> QED BY <2>1, <3>1, <3>2
  <2>2. CASE i # n + 1
    <3>1. i \in 1..n /\ i \in 1..(n + 1) /\ inbox'[i] = inbox[i]
      BY <1>2, <2>2
    <3>2. /\ WellMade(inbox[i])
          /\ inbox[i].kind = "change" =>
               Leads(inbox, doc, seen, i, inbox[i].changes[1].from, inbox[i].ver - 1)
      BY <3>1 DEF DocInv, PipeInv
    <3>3. inbox[i].kind = "change" =>
               Leads(Append(inbox, m), doc, seen, i, inbox[i].changes[1].from, inbox[i].ver - 1)
      BY <1>1, <3>1, <3>2, LeadsAppend
    <3> QED BY <3>1, <3>2, <3>3
  <2> QED BY <2>1, <2>2
<1> client'.ver \in Nat
  BY DEF EditSet
<1>4. ASSUME client'.open
      PROVE  Leads(inbox', doc, seen, (n + 1) + 1, client'.text, client'.ver)
  <2>1. ~IsDoc(m) /\ client' = client => Leads(inbox, doc, seen, n + 1, client'.text, client'.ver)
    BY <1>4 DEF DocInv, PipeInv
  <2>2. Leads(Append(inbox, m), doc, seen, n + 2, client'.text, client'.ver)
    BY <1>1, <1>4, <2>1, LeadsLast
  <2>3. n + 2 = (n + 1) + 1
    BY <1>2
  <2> QED BY <2>2, <2>3
<1>5. PipeInv'
  <2>1. doc' = doc /\ seen' = seen /\ doc \in DocSet
    BY DEF DocInv, PipeInv
  <2> HIDE DEF n
  <2> QED BY <1>2, <1>3, <1>4, <2>1 DEF PipeInv
<1> QED BY <1>5 DEF DocInv, InStep, ShownIsHeld

(* The reader handles the first notification.                               *)
LEMMA HandleInv ==
  ASSUME DocInv, inbox # << >>, inbox' = Tail(inbox), UNCHANGED <<client, disk, fresh>>,
         doc' \in DocSet,
         Carries(inbox[1]) => doc'.open /\ seen' = inbox[1].text /\ doc'.ver <= inbox[1].ver,
         ~IsDoc(inbox[1]) => doc' = doc /\ seen' = seen
  PROVE  PipeInv'
<1> DEFINE n == Len(inbox) - 1
<1>1. inbox \in Seq(MsgSet)
  BY DEF DocInv, PipeInv
<1>2. /\ n \in Nat /\ inbox' \in Seq(MsgSet) /\ Len(inbox') = n
      /\ \A i \in 1..n : inbox'[i] = inbox[i + 1] /\ i + 1 \in 1..Len(inbox) /\ i \in 1..Len(inbox)
  BY <1>1
<1> doc'.ver \in Nat
  BY DEF DocSet
<1>3. ASSUME NEW i \in 1..n
      PROVE  /\ WellMade(inbox'[i])
             /\ inbox'[i].kind = "change" =>
                  Leads(inbox', doc', seen', i, inbox'[i].changes[1].from, inbox'[i].ver - 1)
  <2> DEFINE m == inbox[i + 1]
  <2>1. inbox'[i] = m /\ m.ver \in Nat
    <3>1. inbox'[i] = m /\ m \in MsgSet
      BY <1>1, <1>2
    <3> QED BY <3>1 DEF MsgSet
  <2>2. WellMade(m) /\ (m.kind = "change" => Leads(inbox, doc, seen, i + 1, m.changes[1].from, m.ver - 1))
    BY <1>2 DEF DocInv, PipeInv
  <2> HIDE DEF m
  <2>3. i \in 1..Len(inbox) /\ m.ver - 1 \in Int
    BY <1>2, <2>1
  <2>4. m.kind = "change" => Leads(Tail(inbox), doc', seen', i, m.changes[1].from, m.ver - 1)
    BY <1>1, <2>2, <2>3, LeadsTail
  <2> QED BY <2>1, <2>2, <2>4
<1>4. ASSUME client.open
      PROVE  Leads(inbox', doc', seen', n + 1, client.text, client.ver)
  <2>1. Leads(inbox, doc, seen, Len(inbox) + 1, client.text, client.ver) /\ client.ver \in Int
    BY <1>4 DEF DocInv, PipeInv, EditSet
  <2>2. Len(inbox) \in 1..Len(inbox) /\ n + 1 = Len(inbox)
    BY <1>1, <1>2
  <2>3. Leads(Tail(inbox), doc', seen', Len(inbox), client.text, client.ver)
    BY <1>1, <2>1, <2>2, LeadsTail, Zenon
  <2> QED BY <2>2, <2>3
<1> HIDE DEF n
<1> QED BY <1>2, <1>3, <1>4 DEF DocInv, PipeInv

(* What one change makes of a text it was made in.                          *)
LEMMA ApplyOneInStep ==
  ASSUME NEW b, NEW c,
         \/ b.refused = TRUE
         \/ b.refused = FALSE /\ (b.desynced = TRUE \/ (b.desynced = FALSE /\ b.text = c.from))
  PROVE  \/ ApplyOne(b, c).refused = TRUE
         \/ /\ ApplyOne(b, c).refused = FALSE /\ ApplyOne(b, c).desynced = FALSE
            /\ ApplyOne(b, c).text = c.to
<1> DEFINE r == ApplyOne(b, c)
<1>1. CASE b.refused = TRUE
  <2>1. r = b
    BY <1>1, Zenon DEF ApplyOne
  <2> QED BY <1>1, <2>1
<1>2. CASE b.refused = FALSE /\ c.kind = "whole"
  <2>1. r = Outcome(c.to, FALSE, FALSE)
    BY <1>2, Zenon DEF ApplyOne
  <2> QED BY <2>1 DEF Outcome
<1>3. CASE b.refused = FALSE /\ c.kind # "whole" /\ (b.desynced = TRUE \/ c.kind = "unusable")
  <2>1. r = Outcome(b.text, TRUE, TRUE)
    BY <1>3, Zenon DEF ApplyOne
  <2> QED BY <2>1 DEF Outcome
<1>4. CASE b.refused = FALSE /\ c.kind # "whole" /\ b.desynced = FALSE /\ c.kind # "unusable"
  <2>1. r = Outcome(applyChange(b.text, c), FALSE, FALSE)
    BY <1>4, Zenon DEF ApplyOne
  <2>2. applyChange(b.text, c) = c.to
    BY <1>4 DEF applyChange
  <2> QED BY <2>1, <2>2 DEF Outcome
<1> QED BY <1>1, <1>2, <1>3, <1>4, Zenon

(* What Store.Update makes of changes that were made in its own text.       *)
LEMMA UpdateInStep ==
  ASSUME NEW d, NEW m \in MsgSet, WellMade(m), m.kind = "change",
         d.desynced = TRUE \/ (d.desynced = FALSE /\ d.text = m.changes[1].from)
  PROVE  \/ Applied(d, m.changes).refused = TRUE
         \/ /\ Applied(d, m.changes).refused = FALSE /\ Applied(d, m.changes).desynced = FALSE
            /\ Applied(d, m.changes).text = m.text
<1> DEFINE c == m.changes
           start == Outcome(d.text, d.desynced, FALSE)
           one == ApplyOne(start, c[1])
           two == ApplyOne(one, c[2])
<1>1. \/ Len(c) = 1 /\ c[1].to = m.text
      \/ Len(c) = 2 /\ c[1].to = c[2].from /\ c[2].to = m.text
  BY DEF WellMade
<1>2. Applied(d, c) = IF Len(c) = 1 THEN one ELSE two
  BY DEF Applied
<1>3. start.refused = FALSE /\ (start.desynced = TRUE \/ (start.desynced = FALSE /\ start.text = c[1].from))
  BY DEF Outcome
<1> HIDE DEF c, start
<1>4. one.refused = TRUE \/ (one.refused = FALSE /\ one.desynced = FALSE /\ one.text = c[1].to)
  BY <1>3, ApplyOneInStep, Zenon
<1> HIDE DEF one
<1>5. Len(c) = 2 => two.refused = TRUE \/ (two.refused = FALSE /\ two.desynced = FALSE /\ two.text = c[2].to)
  <2> SUFFICES ASSUME Len(c) = 2
               PROVE  two.refused = TRUE \/ (two.refused = FALSE /\ two.desynced = FALSE /\ two.text = c[2].to)
    BY Zenon
  <2>1. c[1].to = c[2].from
    BY <1>1
  <2>2. one.refused = TRUE \/ (one.refused = FALSE /\ one.desynced = FALSE /\ one.text = c[2].from)
    BY <1>4, <2>1
  <2> QED BY <2>2, ApplyOneInStep, Zenon
<1> HIDE DEF two
<1>6. \/ Applied(d, c).refused = TRUE
      \/ Applied(d, c).refused = FALSE /\ Applied(d, c).desynced = FALSE /\ Applied(d, c).text = m.text
  BY <1>1, <1>2, <1>4, <1>5
<1> QED BY <1>6 DEF c

(* The first notification.                                                  *)
LEMMA FirstMessage ==
  ASSUME DocInv, NEW kind, Handling(kind)
  PROVE  /\ inbox # << >> /\ inbox' = Tail(inbox) /\ Head(inbox) = inbox[1]
         /\ inbox[1] \in MsgSet /\ inbox[1].kind = kind /\ WellMade(inbox[1])
         /\ inbox[1].ver \in Nat /\ inbox[1].text \in Int
         /\ kind = "change" =>
              doc.open /\ seen = inbox[1].changes[1].from /\ doc.ver < inbox[1].ver
<1>1. inbox \in Seq(MsgSet) /\ inbox # << >> /\ inbox' = Tail(inbox) /\ Head(inbox).kind = kind
  BY DEF DocInv, PipeInv, Handling
<1>2. Head(inbox) = inbox[1] /\ inbox[1] \in MsgSet /\ 1 \in 1..Len(inbox)
  BY <1>1
<1>3. inbox[1].ver \in Nat /\ inbox[1].text \in Int
  BY <1>2 DEF MsgSet
<1>4. WellMade(inbox[1])
  BY <1>2 DEF DocInv, PipeInv
<1>5. ASSUME kind = "change"
      PROVE  doc.open /\ seen = inbox[1].changes[1].from /\ doc.ver < inbox[1].ver
  <2>1. Leads(inbox, doc, seen, 1, inbox[1].changes[1].from, inbox[1].ver - 1)
    BY <1>1, <1>2, <1>5 DEF DocInv, PipeInv
  <2> doc.ver \in Nat
    BY DEF DocInv, PipeInv, DocSet
  <2>2. ~(\E j \in 1..(1 - 1) : TRUE)
    OBVIOUS
  <2>3. doc.open /\ seen = inbox[1].changes[1].from /\ doc.ver <= inbox[1].ver - 1
    BY <2>1, <2>2 DEF Leads
  <2> QED BY <1>3, <2>1, <2>3
<1> QED BY <1>1, <1>2, <1>3, <1>4, <1>5

(* didOpen takes the editor's text as it is.                                *)
LEMMA OpenInv ==
  ASSUME DocInv, didOpen
  PROVE  DocInv'
<1>1. /\ Handling("open") /\ UNCHANGED <<client, disk, fresh>>
      /\ doc' = [open |-> TRUE, ver |-> Head(inbox).ver, text |-> Head(inbox).text, desynced |-> FALSE]
      /\ snap' = Head(inbox).text /\ shown' = Head(inbox).text /\ noticed' = FALSE
      /\ seen' = Head(inbox).text
  BY DEF didOpen, editor
<1>2. /\ inbox # << >> /\ inbox' = Tail(inbox) /\ Head(inbox) = inbox[1]
      /\ inbox[1].kind = "open" /\ inbox[1].ver \in Nat /\ inbox[1].text \in Int
  BY <1>1, FirstMessage
<1>3. /\ doc'.open = TRUE /\ doc'.ver = inbox[1].ver /\ doc'.text = inbox[1].text
      /\ doc'.desynced = FALSE /\ doc' \in DocSet
  BY <1>1, <1>2 DEF DocSet
<1>4. PipeInv'
  BY <1>1, <1>2, <1>3, HandleInv DEF Carries, IsDoc
<1> QED BY <1>1, <1>2, <1>3, <1>4, Zenon DEF DocInv, InStep, ShownIsHeld

(* didClose drops the document.                                             *)
LEMMA CloseInv ==
  ASSUME DocInv, didClose
  PROVE  DocInv'
<1>1. /\ Handling("close") /\ UNCHANGED <<client, disk, fresh>>
      /\ doc' = NoDoc /\ snap' = None /\ shown' = None /\ noticed' = FALSE
  BY DEF didClose, editor
<1>2. inbox # << >> /\ inbox' = Tail(inbox) /\ inbox[1].kind = "close"
  BY <1>1, FirstMessage
<1>3. doc'.open = FALSE /\ doc'.desynced = FALSE /\ doc' \in DocSet
  BY <1>1 DEF NoDoc, None, DocSet
<1>4. PipeInv'
  BY <1>1, <1>2, <1>3, HandleInv DEF Carries, IsDoc
<1> QED BY <1>1, <1>3, <1>4, Zenon DEF DocInv, InStep, ShownIsHeld

(* didChange: the change is never stale, and what is accepted is the        *)
(* editor's text.                                                           *)
LEMMA ChangeInv ==
  ASSUME DocInv, didChange
  PROVE  DocInv'
<1> DEFINE m == inbox[1]
           a == Applied(doc, m.changes)
<1>1. Handling("change") /\ UNCHANGED <<client, disk, fresh>>
  BY DEF didChange, editor
<1>2. /\ inbox # << >> /\ inbox' = Tail(inbox) /\ Head(inbox) = m
      /\ m \in MsgSet /\ m.kind = "change" /\ WellMade(m) /\ m.ver \in Nat /\ m.text \in Int
      /\ doc.open /\ seen = m.changes[1].from /\ doc.ver < m.ver
  BY <1>1, FirstMessage
<1> doc \in DocSet /\ doc.ver \in Nat /\ doc.desynced \in BOOLEAN /\ doc.open \in BOOLEAN
  BY DEF DocInv, PipeInv, DocSet
<1>3. doc.desynced = TRUE \/ (doc.desynced = FALSE /\ doc.text = m.changes[1].from)
  BY <1>2 DEF DocInv, InStep
<1>4. a.refused = TRUE \/ (a.refused = FALSE /\ a.text = m.text /\ a.desynced = FALSE)
  BY <1>2, <1>3, UpdateInStep, Zenon
<1>5. Update(doc, m).refused = a.refused
  BY DEF Update
<1>6. Update(doc, m).doc = IF a.refused THEN [doc EXCEPT !.desynced = TRUE]
                             ELSE [open |-> TRUE, ver |-> m.ver, text |-> a.text, desynced |-> a.desynced]
  BY DEF Update
<1>7. ~(m.ver <= doc.ver)
  BY <1>2
<1>8. /\ doc' = Update(doc, m).doc /\ seen' = m.text /\ noticed' = a.refused
      /\ snap' = IF a.refused THEN None ELSE doc'.text
      /\ shown' = IF a.refused THEN None ELSE doc'.text
  BY <1>2, <1>5, <1>7 DEF didChange
<1> HIDE DEF a, m
<1>9. CASE a.refused
  <2>1. doc' = [doc EXCEPT !.desynced = TRUE] /\ snap' = None /\ shown' = None /\ noticed' = TRUE
    BY <1>4, <1>6, <1>8, <1>9
  <2>2. doc' \in DocSet /\ doc'.open = doc.open /\ doc'.ver = doc.ver /\ doc'.desynced = TRUE
    BY <2>1, Zenon DEF DocSet
  <2>3. PipeInv'
    BY <1>1, <1>2, <1>8, <2>2, HandleInv DEF Carries, IsDoc, m
  <2> QED BY <2>1, <2>2, <2>3 DEF DocInv, InStep, ShownIsHeld
<1>10. CASE ~a.refused
  <2>1. /\ doc' = [open |-> TRUE, ver |-> m.ver, text |-> m.text, desynced |-> FALSE]
        /\ snap' = doc'.text /\ shown' = doc'.text /\ noticed' = FALSE
    BY <1>4, <1>6, <1>8, <1>10, Zenon
  <2>2. /\ doc' \in DocSet /\ doc'.open = TRUE /\ doc'.ver = m.ver /\ doc'.desynced = FALSE
        /\ doc'.text = m.text
    BY <1>2, <2>1 DEF DocSet
  <2>3. PipeInv'
    BY <1>1, <1>2, <1>8, <2>2, HandleInv DEF Carries, IsDoc, m
  <2> QED BY <1>8, <2>1, <2>2, <2>3, Zenon DEF DocInv, InStep, ShownIsHeld
<1> QED BY <1>9, <1>10

(* The watched-file notifications do not touch the store.                   *)
LEMMA WatchedInv ==
  ASSUME DocInv, fileWritten \/ forgetDeletedFile
  PROVE  DocInv'
<1>1. /\ Handling("written") \/ Handling("deleted")
      /\ UNCHANGED <<client, disk, fresh, doc, snap, noticed, shown, seen>>
  BY Zenon DEF fileWritten, forgetDeletedFile, editor, store
<1>2. inbox # << >> /\ inbox' = Tail(inbox) /\ inbox[1].kind \in {"written", "deleted"}
  BY <1>1, FirstMessage
<1>3. doc' \in DocSet
  BY <1>1 DEF DocInv, PipeInv
<1>4. PipeInv'
  BY <1>1, <1>2, <1>3, HandleInv DEF Carries, IsDoc
<1> QED BY <1>1, <1>4 DEF DocInv, InStep, ShownIsHeld

(* The editor opens the file.                                               *)
LEMMA ClientOpenInv ==
  ASSUME DocInv, ClientOpen
  PROVE  DocInv'
<1> DEFINE text == IF disk # None THEN disk ELSE fresh
           m == [kind |-> "open", ver |-> 1, changes |-> << >>, text |-> text]
<1> disk \in Int /\ fresh \in Nat
  BY DEF DocInv, PipeInv
<1>1. /\ client' = [open |-> TRUE, ver |-> 1, text |-> text] /\ inbox' = Append(inbox, m)
      /\ UNCHANGED <<disk, doc, snap, noticed, shown, seen>>
      /\ fresh' \in Nat
  BY DEF ClientOpen, Send, store
<1>2. text \in Int
  OBVIOUS
<1> HIDE DEF text
<1>3. << >> \in Seq(ChangeSet)
  OBVIOUS
<1>4. m \in MsgSet /\ m.kind = "open" /\ m.ver = 1 /\ m.text = text
  BY <1>2, <1>3 DEF MsgSet
<1> HIDE DEF m
<1>5. WellMade(m) /\ Carries(m)
  BY <1>4 DEF WellMade, Carries
<1>6. client'.ver = 1 /\ client'.text = text /\ client' \in EditSet
  BY <1>1, <1>2 DEF EditSet
<1>7. m.kind # "change" /\ m.ver <= client'.ver /\ disk' \in Int
  BY <1>1, <1>4, <1>6
<1> QED BY <1>1, <1>4, <1>5, <1>6, <1>7, SendInv, ZenonT(40)

(* The editor changes its text.                                             *)
LEMMA ClientEditInv ==
  ASSUME DocInv, ClientEdit
  PROVE  DocInv'
<1> DEFINE at(i) == IF i = 0 THEN client.text ELSE fresh + i - 1
<1>1. PICK kinds \in {<<k>> : k \in Kinds} \cup (Kinds \X Kinds) :
        /\ fresh' = fresh + Len(kinds)
        /\ client' = [client EXCEPT !.ver = @ + 1, !.text = at(Len(kinds))]
        /\ inbox' = Append(inbox, [kind |-> "change", ver |-> client.ver + 1, text |-> at(Len(kinds)),
                     changes |-> [i \in 1..Len(kinds) |-> Change(kinds[i], at(i - 1), at(i))]])
  BY Zenon DEF ClientEdit, Send
<1> DEFINE n == Len(kinds)
           c == [i \in 1..n |-> Change(kinds[i], at(i - 1), at(i))]
           m == [kind |-> "change", ver |-> client.ver + 1, text |-> at(n), changes |-> c]
<1>2. /\ client.open /\ UNCHANGED <<disk, doc, snap, noticed, shown, seen>>
      /\ client \in EditSet /\ client.ver \in Nat /\ client.text \in Int
      /\ disk \in Int /\ fresh \in Nat
  BY DEF ClientEdit, store, DocInv, PipeInv, EditSet
<1>3. n \in {1, 2} /\ \A i \in 1..n : kinds[i] \in Kinds
  <2>1. CASE kinds \in {<<k>> : k \in Kinds}
    BY <2>1
  <2>2. CASE kinds \in Kinds \X Kinds
    <3>1. PICK k \in Kinds, l \in Kinds : kinds = <<k, l>>
      BY <2>2
    <3> QED BY <3>1
  <2> QED BY <1>1, <2>1, <2>2
<1>4. \A i \in 0..n : at(i) \in Int
  BY <1>2, <1>3
<1>5. at(0) = client.text
  OBVIOUS
<1> HIDE DEF at, n
<1>6. \A i \in 1..n : Change(kinds[i], at(i - 1), at(i)) \in ChangeSet
  BY <1>3, <1>4 DEF Change, ChangeSet
<1>7. c \in Seq(ChangeSet) /\ Len(c) = n
  BY <1>3, <1>6
<1>8. \A i \in 1..n : c[i].from = at(i - 1) /\ c[i].to = at(i)
  BY DEF Change
<1> HIDE DEF c
<1>9. at(n) \in Int /\ n \in 1..n /\ n \in 0..n /\ 1 \in 1..n /\ 1 - 1 = 0 /\ 2 - 1 = 1
  BY <1>3, <1>4
<1>10. /\ m \in MsgSet /\ m.kind = "change" /\ m.ver = client.ver + 1 /\ m.text = at(n)
       /\ m.changes = c
  BY <1>2, <1>7, <1>9 DEF MsgSet
<1>11. inbox' = Append(inbox, m)
  BY <1>1 DEF n, c
<1>12. client' = [client EXCEPT !.ver = @ + 1, !.text = at(n)] /\ fresh' = fresh + n
  BY <1>1 DEF n
<1> HIDE DEF m
<1>13. WellMade(m) /\ Carries(m)
  BY <1>3, <1>7, <1>8, <1>9, <1>10 DEF WellMade, Carries
<1>14. client' \in EditSet /\ client'.ver = client.ver + 1 /\ client'.text = at(n) /\ fresh' \in Nat
  <2>1. client.ver + 1 \in Nat /\ fresh + n \in Nat
    BY <1>2, <1>3
  <2> QED BY <1>2, <1>9, <1>12, <2>1, Zenon DEF EditSet
<1>15. Leads(inbox, doc, seen, Len(inbox) + 1, m.changes[1].from, m.ver - 1)
  <2>1. m.changes[1].from = client.text
    BY <1>5, <1>8, <1>9, <1>10
  <2>2. m.ver - 1 = client.ver
    BY <1>2, <1>10
  <2>3. Leads(inbox, doc, seen, Len(inbox) + 1, client.text, client.ver)
    BY <1>2 DEF DocInv, PipeInv
  <2> QED BY <2>1, <2>2, <2>3
<1> QED BY <1>2, <1>10, <1>11, <1>13, <1>14, <1>15, SendInv

(* The editor closes the file, or the file changes on disk.                 *)
LEMMA ClientOtherInv ==
  ASSUME DocInv, ClientClose \/ DiskWrite \/ DiskDelete
  PROVE  DocInv'
<1> DEFINE Other(kind) == [kind |-> kind, ver |-> 0, changes |-> << >>, text |-> None]
<1> client \in EditSet /\ client.text \in Int /\ disk \in Int /\ fresh \in Nat
  BY DEF DocInv, PipeInv, EditSet
<1>1. ASSUME NEW kind \in {"close", "written", "deleted"}
      PROVE  /\ Other(kind) \in MsgSet /\ Other(kind).kind = kind
             /\ WellMade(Other(kind))
  <2>1. << >> \in Seq(ChangeSet) /\ None \in Int
    BY DEF None
  <2>2. Other(kind) \in MsgSet /\ Other(kind).kind = kind
    BY <2>1 DEF MsgSet
  <2> QED BY <2>2 DEF WellMade
<1>2. UNCHANGED <<doc, snap, noticed, shown, seen>>
  BY DEF ClientClose, DiskWrite, DiskDelete, store
<1>3. CASE ClientClose
  <2>1. /\ client' = [client EXCEPT !.open = FALSE] /\ inbox' = Append(inbox, Other("close"))
        /\ UNCHANGED <<disk, fresh>>
    BY <1>3 DEF ClientClose, Send
  <2>2. client' \in EditSet /\ client'.open = FALSE
    BY <2>1, Zenon DEF EditSet
  <2> HIDE DEF Other
  <2> QED BY <1>1, <1>2, <2>1, <2>2, SendInv, Zenon
<1>4. CASE DiskWrite \/ DiskDelete
  <2>1. PICK kind \in {"written", "deleted"} :
          inbox' = Append(inbox, Other(kind)) /\ client' = client /\ disk' \in Int /\ fresh' \in Nat
    <3>1. CASE DiskWrite
      BY <3>1 DEF DiskWrite, Send, watched
    <3>2. CASE DiskDelete
      BY <3>2 DEF DiskDelete, Send, watched, None, editor
    <3> QED BY <1>4, <3>1, <3>2
  <2> HIDE DEF Other
  <2>2. ~IsDoc(Other(kind)) /\ Other(kind).kind # "change"
    BY <1>1 DEF IsDoc
  <2> QED BY <1>1, <1>2, <2>1, <2>2, SendInv
<1> QED BY <1>3, <1>4

(* Every step of the editor, the disk, the reader and the scan keeps the    *)
(* invariant.                                                               *)
LEMMA DocNext ==
  ASSUME DocInv, [Next]_(vars)
  PROVE  DocInv'
<1>1. ASSUME UNCHANGED <<client, disk, fresh, inbox, doc, snap, noticed, shown, seen>>
      PROVE  DocInv'
  BY <1>1 DEF DocInv, PipeInv, InStep, ShownIsHeld
<1>2. CASE UNCHANGED vars
  BY <1>1, <1>2 DEF vars, store, editor
<1>3. CASE \E g \in {"reader", "scan"} : IndexOp(g)
  <2>1. Quiet
    BY <1>3, Zenon DEF IndexOp, symbolUpdate, PutFile, RemoveFile, evictScannedEntryFor,
                checkFile, readFile, noteScanned, Files
  <2> QED BY <1>1, <2>1 DEF Quiet, store, editor
<1>4. CASE Client
  BY <1>4, ClientOpenInv, ClientEditInv, ClientOtherInv DEF Client
<1>5. CASE republishAllDiagnostics
  <2>1. /\ UNCHANGED <<client, disk, fresh, inbox, doc, snap, noticed, seen>>
        /\ shown' = snap /\ snap # None
    BY <1>5 DEF republishAllDiagnostics, editor
  <2>2. PipeInv'
    BY <2>1 DEF DocInv, PipeInv
  <2> QED BY <2>1, <2>2 DEF DocInv, InStep, ShownIsHeld
<1>6. CASE Handler
  BY <1>5, <1>6, OpenInv, ChangeInv, CloseInv, WatchedInv DEF Handler
<1> QED BY <1>2, <1>3, <1>4, <1>6 DEF Next

(* The pipe of notifications keeps the document and the editor together.    *)
THEOREM DocInvariance == Spec => []DocInv
<1>1. Init => DocInv
  <2> SUFFICES ASSUME Init PROVE DocInv
    OBVIOUS
  <2>1. /\ client = [open |-> FALSE, ver |-> 0, text |-> None] /\ disk \in {None, 0}
        /\ fresh = 1 /\ inbox = << >> /\ doc = NoDoc /\ snap = None /\ noticed = FALSE
        /\ shown = None /\ seen = None
    BY Zenon DEF Init
  <2>2. client \in EditSet /\ client.open = FALSE /\ disk \in Int /\ fresh \in Nat
    BY <2>1 DEF None, EditSet
  <2>3. doc \in DocSet /\ doc.open = FALSE /\ doc.desynced = FALSE
    BY <2>1 DEF None, NoDoc, DocSet
  <2>4. inbox \in Seq(MsgSet) /\ Len(inbox) = 0
    BY <2>1
  <2>5. PipeInv
    BY <2>2, <2>3, <2>4 DEF PipeInv
  <2> QED BY <2>1, <2>3, <2>5, Zenon DEF DocInv, InStep, ShownIsHeld
<1> QED BY <1>1, DocNext, PTL DEF Spec

(* A stored document that does not say otherwise is the editor's copy as of *)
(* the last change handled, for every number of texts and any length of the *)
(* pipe.                                                                    *)
THEOREM StoreInStep == Spec => []InStep
<1>1. DocInv => InStep
  BY DEF DocInv
<1> QED BY <1>1, DocInvariance, PTL

(* The diagnostics the editor shows are of a text it has, and the user has  *)
(* been told exactly when the document is out of step.                      *)
THEOREM DiagnosticsHeld == Spec => []ShownIsHeld
<1>1. DocInv => ShownIsHeld
  BY DEF DocInv
<1> QED BY <1>1, DocInvariance, PTL

-----------------------------------------------------------------------------
(* What the two indexes hold *)

(* The lists of operations a goroutine can be left with, by name: those of  *)
(* indexFileFromDisk, of didOpen and an accepted change, of what forgets    *)
(* the file under the editor's URI, under the scan's or under both, and of  *)
(* didClose.  s is the editor's URI and x a text.                           *)
FilingPlans == {"note", "file", "put"}
ScanPlans   == {"idle", "check", "read"} \cup FilingPlans
OpenPlans   == {"evict", "unfile", "take", "keep"}
DropPlans   == {"drop", "remove"}
OtherPlans  == {"both", "rest", "dropDisk", "removeDisk"}
ClosePlans  == {"close", "recheck", "reread"}
Plans       == ScanPlans \cup OpenPlans \cup DropPlans \cup OtherPlans \cup ClosePlans

List(s, p, x) ==
  CASE p = "idle"       -> <<>>
    [] p = "check"      -> <<fromDisk(FALSE)>>
    [] p = "read"       -> <<Op("read", DiskUri, None)>>
    [] p = "note"       -> <<Op("scanned", DiskUri, None), Op("symbol", DiskUri, x), Op("sema", DiskUri, x)>>
    [] p = "file"       -> <<Op("symbol", DiskUri, x), Op("sema", DiskUri, x)>>
    [] p = "put"        -> <<Op("sema", DiskUri, x)>>
    [] p = "evict"      -> <<Op("evict", s, None), Op("symbol", s, x), Op("sema", s, x)>>
    [] p = "unfile"     -> <<Op("unsymbol", DiskUri, None), Op("symbol", s, x), Op("sema", s, x)>>
    [] p = "take"       -> <<Op("symbol", s, x), Op("sema", s, x)>>
    [] p = "keep"       -> <<Op("sema", s, x)>>
    [] p = "drop"       -> <<Op("unsymbol", s, None), Op("unsema", s, None)>>
    [] p = "remove"     -> <<Op("unsema", s, None)>>
    [] p = "both"       -> <<Op("unsymbol", s, None), Op("unsema", s, None),
                             Op("unsymbol", DiskUri, None), Op("unsema", DiskUri, None)>>
    [] p = "rest"       -> <<Op("unsema", s, None), Op("unsymbol", DiskUri, None), Op("unsema", DiskUri, None)>>
    [] p = "dropDisk"   -> <<Op("unsymbol", DiskUri, None), Op("unsema", DiskUri, None)>>
    [] p = "removeDisk" -> <<Op("unsema", DiskUri, None)>>
    [] p = "close"      -> <<Op("unsymbol", s, None), fromDisk(TRUE)>>
    [] p = "recheck"    -> <<fromDisk(TRUE)>>
    [] p = "reread"     -> <<Op("readOrForget", DiskUri, None)>>

(* No change of the disk is on its way to the server; and the last one that *)
(* is says whether there is a file.                                         *)
IsWatched(m) == m.kind \in {"written", "deleted"}
Told         == \A i \in 1..Len(inbox) : ~IsWatched(inbox[i])

DiskInv ==
  /\ disk \in Nat \cup {None} /\ (client.open => client.text \in Nat)
  /\ \A i \in 1..Len(inbox) :
       IsWatched(inbox[i]) /\ (\A j \in (i + 1)..Len(inbox) : ~IsWatched(inbox[j])) =>
         (inbox[i].kind = "deleted" <=> disk = None)

(* Only the file's two URIs are used, and who filed the facts is on record. *)
FiledInv ==
  /\ spelling \in Uris /\ scanned \in {"", DiskUri}
  /\ symbols = [u \in Uris |-> symbols[u]] /\ (spelling = DiskUri => symbols["editor"] = None)
  /\ facts = Nobody \/ (facts.uri \in byURI /\ facts.uri \in {spelling, DiskUri})

(* The scan, between its check and its last filing: no notification about   *)
(* the file was handled since, so what it read is on the disk unless a      *)
(* notification says otherwise.                                             *)
ScanInv(p, x) ==
  /\ p \in ScanPlans
  /\ ~raced /\ p \notin {"idle", "check"} =>
       /\ ~doc.open
       /\ Told => disk # None /\ (p \in FilingPlans => x = disk)
       /\ p \in {"file", "put"} => scanned = DiskUri

(* The reader, in the same way.                                             *)
ReaderInv(p, x) ==
  /\ p \in OtherPlans \cup {"unfile"} => spelling # DiskUri
  /\ doc.open /\ doc.desynced => p \in {"idle"} \cup DropPlans
  /\ doc.open /\ ~doc.desynced => p = "idle" \/ (p \in OpenPlans /\ x = doc.text)
  /\ ~doc.open =>
       /\ p \in Plans \ OpenPlans
       /\ p \in {"file", "put"} => scanned = DiskUri
       /\ Told => /\ p \in {"check", "read", "reread"} \cup FilingPlans => disk # None
                  /\ p \in FilingPlans => x = disk
                  /\ p \in DropPlans \cup OtherPlans => disk = None \/ (p = "remove" /\ skipped)

(* An open document: its text is filed under the editor's URI, or will be,  *)
(* and the disk's is not, or will not be.                                   *)
Wanted == IF doc.desynced THEN None ELSE doc.text

OpenFiled(p) ==
  /\ p = "idle" => facts.text = Wanted
  /\ p \in {"idle"} \cup DropPlans => facts = Nobody \/ facts.uri = spelling
  /\ p \in {"idle", "keep", "remove"} => symbols[spelling] = Wanted
  /\ spelling # DiskUri =>
       symbols[DiskUri] = None \/ p = "unfile" \/ (p = "evict" /\ scanned = DiskUri)

(* A file that is not open: one of the goroutines will file what the disk   *)
(* holds, unless it was skipped, or the reader will forget what is filed;   *)
(* and the reader will replace or forget what the editor filed.  What a     *)
(* later deletion or didOpen has to clear is where it looks for it.         *)
WillFile == {"check", "read", "close", "recheck", "reread"} \cup FilingPlans

ClosedFiled(p, q) ==
  /\ facts = Nobody \/ facts.uri = spelling \/ scanned = DiskUri \/ p \in OtherPlans
  /\ spelling # DiskUri =>
       /\ facts.uri # spelling \/ p \in ClosePlans \cup DropPlans \cup FilingPlans \cup {"both", "rest"}
       /\ symbols[spelling] = None \/ p \in {"close", "drop", "both"}
       /\ symbols[DiskUri] = None \/ scanned = DiskUri \/ p \in {"both", "rest", "dropDisk"}
  /\ Told /\ disk # None /\ ~skipped =>
       /\ facts.text = disk \/ p \in WillFile \/ q \in WillFile
       /\ symbols[DiskUri] = disk \/ p \in WillFile \ {"put"} \/ q \in WillFile \ {"put"}
  /\ Told /\ disk = None =>
       /\ \/ facts = Nobody
          \/ facts.uri = spelling /\ p \in {"close", "recheck", "both", "rest"} \cup DropPlans
          \/ facts.uri = DiskUri /\ p \in OtherPlans
       /\ \/ symbols[DiskUri] = None
          \/ p \in {"both", "rest", "dropDisk"}
          \/ spelling = DiskUri /\ p \in {"close", "drop"}

Filed(p, x, q, y) ==
  /\ ScanInv(q, y) /\ ReaderInv(p, x)
  /\ ~raced => IF doc.open THEN OpenFiled(p) ELSE ClosedFiled(p, q)

IndexInv ==
  /\ DiskInv /\ FiledInv
  /\ \E p, q \in Plans : \E x, y :
       /\ work = [reader |-> List(spelling, p, x), scan |-> List(spelling, q, y)]
       /\ Filed(p, x, q, y)

(* What running the first operation of a plan does: the next plan, and what *)
(* becomes of the indexes.                                                  *)
Removed(uri) ==
  /\ byURI' = byURI \ {uri}
  /\ facts' = IF uri \in byURI /\ facts.uri = uri THEN Nobody ELSE facts

Put(uri, x) == facts' = [uri |-> uri, text |-> x] /\ byURI' = byURI \cup {uri}

MaySkip == skipped' = (skipped \/ (disk # None /\ ~doc.open))

Instead(p) == IF p \in {"recheck", "reread"} /\ ~doc.open THEN "remove" ELSE "idle"

Moves(p, x, q, y) ==
  \/ /\ p \in {"check", "recheck", "read", "reread"} /\ UNCHANGED <<scanned, symbols, facts, byURI>>
     /\ q = Instead(p) /\ MaySkip
  \/ /\ p \in {"check", "recheck"} /\ UNCHANGED <<scanned, symbols, facts, byURI, skipped>>
     /\ disk # None /\ ~doc.open /\ q = IF p = "recheck" THEN "reread" ELSE "read"
  \/ /\ p \in {"read", "reread"} /\ UNCHANGED <<scanned, symbols, facts, byURI, skipped>>
     /\ disk # None /\ q = "note" /\ y = disk
  \/ p = "note" /\ q = "file" /\ y = x /\ scanned' = DiskUri /\ UNCHANGED <<symbols, facts, byURI, skipped>>
  \/ /\ UNCHANGED <<scanned, facts, byURI, skipped>> /\ y = x
     /\ \/ p = "file" /\ q = "put" /\ symbols' = [symbols EXCEPT ![DiskUri] = x]
        \/ p = "take" /\ q = "keep" /\ symbols' = [symbols EXCEPT ![spelling] = x]
        \/ p = "unfile" /\ q = "take" /\ symbols' = [symbols EXCEPT ![DiskUri] = None]
        \/ p = "dropDisk" /\ q = "removeDisk" /\ symbols' = [symbols EXCEPT ![DiskUri] = None]
        \/ /\ <<p, q>> \in {<<"close", "recheck">>, <<"drop", "remove">>, <<"both", "rest">>}
           /\ symbols' = [symbols EXCEPT ![spelling] = None]
  \/ /\ UNCHANGED <<scanned, symbols, skipped>>
     /\ \/ p = "put" /\ q = "idle" /\ Put(DiskUri, x)
        \/ p = "keep" /\ q = "idle" /\ Put(spelling, x)
        \/ p = "remove" /\ q = "idle" /\ Removed(spelling)
        \/ p = "rest" /\ q = "dropDisk" /\ Removed(spelling)
        \/ p = "removeDisk" /\ q = "idle" /\ Removed(DiskUri)
  \/ /\ p = "evict" /\ scanned' = "" /\ y = x /\ UNCHANGED <<symbols, facts, byURI, skipped>>
     /\ q = IF scanned \in {"", spelling} THEN "take" ELSE "unfile"

(* A pair of operations before another.                                     *)
LEMMA JoinPairs ==
  ASSUME NEW a, NEW b, NEW c, NEW d
  PROVE  <<a, b>> \o <<c, d>> = <<a, b, c, d>>
<1> DEFINE S == {a, b, c, d}
           f == <<a, b>> \o <<c, d>>
           h == <<a, b, c, d>>
<1>1. <<a, b>> \in Seq(S) /\ <<c, d>> \in Seq(S)
  OBVIOUS
<1>2. f \in Seq(S) /\ Len(f) = 4 /\ f[1] = a /\ f[2] = b /\ f[3] = c /\ f[4] = d
  BY <1>1
<1>3. h \in Seq(S) /\ Len(h) = 4 /\ h[1] = a /\ h[2] = b /\ h[3] = c /\ h[4] = d
  OBVIOUS
<1> HIDE DEF f, h
<1>4. \A i \in 1..Len(f) : f[i] = h[i]
  BY <1>2, <1>3
<1>5. f = [i \in 1..4 |-> f[i]] /\ h = [i \in 1..4 |-> h[i]]
  BY <1>2, <1>3
<1>6. f = h
  BY <1>2, <1>3, <1>4, <1>5
<1> QED BY <1>6 DEF f, h

(* Putting operations before the rest.                                      *)
LEMMA Joins ==
  ASSUME NEW a, NEW b, NEW c, NEW d
  PROVE  /\ <<>> \o <<>> = <<>> /\ <<>> \o <<a>> = <<a>> /\ <<>> \o <<a, b>> = <<a, b>>
         /\ <<>> \o <<a, b, c>> = <<a, b, c>>
         /\ <<a>> \o <<>> = <<a>> /\ <<a>> \o <<b, c>> = <<a, b, c>>
         /\ <<a, b>> \o <<>> = <<a, b>> /\ <<a, b>> \o <<c, d>> = <<a, b, c, d>>
         /\ <<a, b, c>> \o <<>> = <<a, b, c>>
<1>1. <<>> \o <<>> = <<>> /\ <<>> \o <<a>> = <<a>>
  OBVIOUS
<1>2. <<>> \o <<a, b>> = <<a, b>>
  OBVIOUS
<1>3. <<>> \o <<a, b, c>> = <<a, b, c>>
  OBVIOUS
<1>4. <<a>> \o <<>> = <<a>>
  OBVIOUS
<1>5. <<a>> \o <<b, c>> = <<a, b, c>>
  <2> DEFINE S == {a, b, c}
             f == <<a>> \o <<b, c>>
             h == <<a, b, c>>
  <2>1. <<a>> \in Seq(S) /\ <<b, c>> \in Seq(S)
    OBVIOUS
  <2>2. f \in Seq(S) /\ Len(f) = 3 /\ f[1] = a /\ f[2] = b /\ f[3] = c
    BY <2>1
  <2>3. h \in Seq(S) /\ Len(h) = 3 /\ h[1] = a /\ h[2] = b /\ h[3] = c
    OBVIOUS
  <2> HIDE DEF f, h
  <2>4. \A i \in 1..Len(f) : f[i] = h[i]
    BY <2>2, <2>3
  <2>5. f = [i \in 1..3 |-> f[i]] /\ h = [i \in 1..3 |-> h[i]]
    BY <2>2, <2>3
  <2>6. f = h
    BY <2>2, <2>3, <2>4, <2>5
  <2> QED BY <2>6 DEF f, h
<1>6. <<a, b>> \o <<>> = <<a, b>>
  OBVIOUS
<1>7. <<a, b>> \o <<c, d>> = <<a, b, c, d>>
  BY JoinPairs
<1>8. <<a, b, c>> \o <<>> = <<a, b, c>>
  OBVIOUS
<1> QED BY <1>1, <1>2, <1>3, <1>4, <1>5, <1>6, <1>7, <1>8

(* The lists of the scan.                                                   *)
LEMMA ScanLists ==
  ASSUME NEW s, NEW x
  PROVE  /\ List(s, "idle", x) = <<>>
         /\ List(s, "check", x) = <<Op("check", DiskUri, None)>>
         /\ List(s, "read", x) = <<Op("read", DiskUri, None)>>
         /\ List(s, "note", x) = <<Op("scanned", DiskUri, None), Op("symbol", DiskUri, x), Op("sema", DiskUri, x)>>
         /\ List(s, "file", x) = <<Op("symbol", DiskUri, x), Op("sema", DiskUri, x)>>
         /\ List(s, "put", x) = <<Op("sema", DiskUri, x)>>
  BY DEF List, fromDisk

(* The lists of an open document.                                           *)
LEMMA OpenLists ==
  ASSUME NEW s, NEW x
  PROVE  /\ List(s, "evict", x) = <<Op("evict", s, None), Op("symbol", s, x), Op("sema", s, x)>>
         /\ List(s, "unfile", x) = <<Op("unsymbol", DiskUri, None), Op("symbol", s, x), Op("sema", s, x)>>
         /\ List(s, "take", x) = <<Op("symbol", s, x), Op("sema", s, x)>>
         /\ List(s, "keep", x) = <<Op("sema", s, x)>>
  BY DEF List

(* The lists that forget or close a document.                               *)
LEMMA DropLists ==
  ASSUME NEW s, NEW x
  PROVE  /\ List(s, "drop", x) = <<Op("unsymbol", s, None), Op("unsema", s, None)>>
         /\ List(s, "remove", x) = <<Op("unsema", s, None)>>
         /\ List(s, "close", x) = <<Op("unsymbol", s, None), Op("checkOrForget", DiskUri, None)>>
         /\ List(s, "recheck", x) = <<Op("checkOrForget", DiskUri, None)>>
         /\ List(s, "reread", x) = <<Op("readOrForget", DiskUri, None)>>
  BY DEF List, fromDisk

(* The lists that forget both copies.                                       *)
LEMMA OtherLists ==
  ASSUME NEW s, NEW x
  PROVE  /\ List(s, "both", x) = <<Op("unsymbol", s, None), Op("unsema", s, None),
                                   Op("unsymbol", DiskUri, None), Op("unsema", DiskUri, None)>>
         /\ List(s, "rest", x) = <<Op("unsema", s, None), Op("unsymbol", DiskUri, None), Op("unsema", DiskUri, None)>>
         /\ List(s, "dropDisk", x) = <<Op("unsymbol", DiskUri, None), Op("unsema", DiskUri, None)>>
         /\ List(s, "removeDisk", x) = <<Op("unsema", DiskUri, None)>>
  BY DEF List

(* What running an operation does, with rest left after it.                 *)
Runs(g, do, uri, text, rest) ==
  /\ work[g] # <<>> /\ Quiet
  /\ do \in {"symbol", "unsymbol"} =>
       /\ symbols' = [symbols EXCEPT ![uri] = text] /\ UNCHANGED <<scanned, facts, byURI, skipped>>
       /\ work' = [work EXCEPT ![g] = <<>> \o rest]
  /\ do = "sema" =>
       /\ Put(uri, text) /\ UNCHANGED <<scanned, symbols, skipped>>
       /\ work' = [work EXCEPT ![g] = <<>> \o rest]
  /\ do = "unsema" =>
       /\ Removed(uri) /\ UNCHANGED <<scanned, symbols, skipped>>
       /\ work' = [work EXCEPT ![g] = <<>> \o rest]
  /\ do = "evict" =>
       /\ scanned' = "" /\ UNCHANGED <<symbols, facts, byURI, skipped>>
       /\ work' = [work EXCEPT ![g] =
            (IF scanned \in {"", spelling} THEN <<>>
             ELSE <<Op("unsymbol", scanned, None)>> \o forgetSplitModule(scanned)) \o rest]
  /\ do = "scanned" =>
       /\ scanned' = DiskUri /\ UNCHANGED <<symbols, facts, byURI, skipped>>
       /\ work' = [work EXCEPT ![g] = <<>> \o rest]
  /\ do \in {"check", "checkOrForget"} =>
       /\ UNCHANGED <<scanned, symbols, facts, byURI>>
       /\ \/ work' = [work EXCEPT ![g] = Skipped(do = "checkOrForget") \o rest] /\ MaySkip
          \/ /\ disk # None /\ ~doc.open /\ UNCHANGED skipped
             /\ work' = [work EXCEPT ![g] =
                  <<Op(IF do = "checkOrForget" THEN "readOrForget" ELSE "read", DiskUri, None)>> \o rest]
  /\ do \in {"read", "readOrForget"} =>
       /\ UNCHANGED <<scanned, symbols, facts, byURI>>
       /\ \/ work' = [work EXCEPT ![g] = Skipped(do = "readOrForget") \o rest] /\ MaySkip
          \/ /\ disk # None /\ UNCHANGED skipped
             /\ work' = [work EXCEPT ![g] =
                  <<Op("scanned", DiskUri, None), Op("symbol", DiskUri, disk), Op("sema", DiskUri, disk)>> \o rest]

(* The first operation decides which index operation a goroutine runs.      *)
LEMMA Effects ==
  ASSUME NEW g \in {"reader", "scan"}, IndexOp(g), NEW do, NEW uri, NEW text, NEW rest,
         Head(work[g]) = Op(do, uri, text), Tail(work[g]) = rest
  PROVE  Runs(g, do, uri, text, rest)
<1> USE DEF Runs
<1>0. Next1(g) = Op(do, uri, text)
  BY DEF Next1
<1>1. Next1(g).do = do /\ Next1(g).uri = uri /\ Next1(g).text = text
  BY <1>0 DEF Op
<1>2. CASE symbolUpdate(g)
  <2>1. do \in {"symbol", "unsymbol"}
    BY <1>1, <1>2 DEF symbolUpdate, Is
  <2> QED BY <1>1, <1>2, <2>1, Zenon DEF symbolUpdate, Is, Then, Files
<1>3. CASE PutFile(g)
  <2>1. do = "sema"
    BY <1>1, <1>3 DEF PutFile, Is
  <2> QED BY <1>1, <1>3, <2>1, Zenon DEF PutFile, Is, Then, Put, Files
<1>4. CASE RemoveFile(g)
  <2>1. do = "unsema"
    BY <1>1, <1>4 DEF RemoveFile, Is
  <2> QED BY <1>1, <1>4, <2>1, Zenon DEF RemoveFile, Is, Then, Removed, Files
<1>5. CASE evictScannedEntryFor(g)
  <2>1. do = "evict"
    BY <1>1, <1>5, Zenon DEF evictScannedEntryFor, Is
  <2> QED BY <1>1, <1>5, <2>1, Zenon DEF evictScannedEntryFor, Is, Then, Files
<1>6. CASE noteScanned(g)
  <2>1. do = "scanned"
    BY <1>1, <1>6 DEF noteScanned, Is
  <2> QED BY <1>1, <1>6, <2>1, Zenon DEF noteScanned, Is, Then, Files
<1>7. CASE checkFile(g)
  <2>1. PICK forget \in BOOLEAN :
          /\ Is(g, fromDisk(forget).do)
          /\ \/ Skips(g, forget)
             \/ /\ disk # None /\ ~doc.open
                /\ Then(g, <<Op(IF forget THEN "readOrForget" ELSE "read", DiskUri, None)>>)
                /\ UNCHANGED skipped
          /\ Quiet /\ UNCHANGED index
    BY <1>7, Zenon DEF checkFile
  <2>2. do = IF forget THEN "checkOrForget" ELSE "check"
    BY <1>1, <2>1 DEF Is, fromDisk, Op
  <2>3. forget = (do = "checkOrForget") /\ do \in {"check", "checkOrForget"}
    BY <2>2
  <2>4. UNCHANGED <<scanned, symbols, facts, byURI>>
    BY <2>1 DEF index
  <2>5. do \notin {"symbol", "unsymbol", "sema", "unsema", "evict", "scanned", "read", "readOrForget"}
    BY <2>3
  <2>6. CASE Skips(g, forget)
    <3>1. work' = [work EXCEPT ![g] = Skipped(do = "checkOrForget") \o rest] /\ MaySkip
      BY <2>3, <2>6, Zenon DEF Skips, Then, MaySkip
    <3> QED BY <2>1, <2>3, <2>4, <2>5, <3>1, Zenon DEF Is
  <2>7. CASE ~Skips(g, forget)
    <3>1. /\ disk # None /\ ~doc.open /\ UNCHANGED skipped
          /\ work' = [work EXCEPT ![g] =
               <<Op(IF do = "checkOrForget" THEN "readOrForget" ELSE "read", DiskUri, None)>> \o rest]
      BY <2>1, <2>3, <2>7, Zenon DEF Then
    <3> QED BY <2>1, <2>3, <2>4, <2>5, <3>1, Zenon DEF Is
  <2> QED BY <2>6, <2>7, Zenon
<1>8. CASE readFile(g)
  <2>1. PICK forget \in BOOLEAN :
          /\ Is(g, IF forget THEN "readOrForget" ELSE "read")
          /\ \/ Skips(g, forget)
             \/ /\ disk # None
                /\ Then(g, <<Op("scanned", DiskUri, None), Op("symbol", DiskUri, disk), Op("sema", DiskUri, disk)>>)
                /\ UNCHANGED skipped
          /\ Quiet /\ UNCHANGED index
    BY <1>8, Zenon DEF readFile
  <2>2. do = IF forget THEN "readOrForget" ELSE "read"
    BY <1>1, <2>1 DEF Is
  <2>3. forget = (do = "readOrForget") /\ do \in {"read", "readOrForget"}
    BY <2>2
  <2>4. UNCHANGED <<scanned, symbols, facts, byURI>>
    BY <2>1 DEF index
  <2>5. do \notin {"symbol", "unsymbol", "sema", "unsema", "evict", "scanned", "check", "checkOrForget"}
    BY <2>3
  <2>6. CASE Skips(g, forget)
    <3>1. work' = [work EXCEPT ![g] = Skipped(do = "readOrForget") \o rest] /\ MaySkip
      BY <2>3, <2>6, Zenon DEF Skips, Then, MaySkip
    <3> QED BY <2>1, <2>3, <2>4, <2>5, <3>1, Zenon DEF Is
  <2>7. CASE ~Skips(g, forget)
    <3>1. /\ disk # None /\ UNCHANGED skipped
          /\ work' = [work EXCEPT ![g] =
               <<Op("scanned", DiskUri, None), Op("symbol", DiskUri, disk), Op("sema", DiskUri, disk)>> \o rest]
      BY <2>1, <2>3, <2>7, Zenon DEF Then
    <3> QED BY <2>1, <2>3, <2>4, <2>5, <3>1, Zenon DEF Is
  <2> QED BY <2>6, <2>7, Zenon
<1> QED BY <1>2, <1>3, <1>4, <1>5, <1>6, <1>7, <1>8, Zenon DEF IndexOp

(* The first operation and the plan that is left, of the lists of the scan. *)
LEMMA ScanHeads ==
  ASSUME NEW s, NEW x
  PROVE  /\ Head(List(s, "check", x)) = Op("check", DiskUri, None) /\ Tail(List(s, "check", x)) = List(s, "idle", x)
         /\ Head(List(s, "read", x)) = Op("read", DiskUri, None) /\ Tail(List(s, "read", x)) = List(s, "idle", x)
         /\ Head(List(s, "note", x)) = Op("scanned", DiskUri, None) /\ Tail(List(s, "note", x)) = List(s, "file", x)
         /\ Head(List(s, "file", x)) = Op("symbol", DiskUri, x) /\ Tail(List(s, "file", x)) = List(s, "put", x)
         /\ Head(List(s, "put", x)) = Op("sema", DiskUri, x) /\ Tail(List(s, "put", x)) = List(s, "idle", x)
<1>a. \A a : Head(<<a>>) = a /\ Tail(<<a>>) = <<>>
  OBVIOUS
<1>b. \A a, b : Head(<<a, b>>) = a /\ Tail(<<a, b>>) = <<b>>
  OBVIOUS
<1>c. \A a, b, c : Head(<<a, b, c>>) = a /\ Tail(<<a, b, c>>) = <<b, c>>
  OBVIOUS
<1>1. Head(List(s, "check", x)) = Op("check", DiskUri, None) /\ Tail(List(s, "check", x)) = List(s, "idle", x)
  <2>1. /\ List(s, "check", x) = <<Op("check", DiskUri, None)>>
        /\ List(s, "idle", x) = <<>>
    BY ScanLists
  <2> QED BY <1>a, <2>1, Zenon
<1>2. Head(List(s, "read", x)) = Op("read", DiskUri, None) /\ Tail(List(s, "read", x)) = List(s, "idle", x)
  <2>1. /\ List(s, "read", x) = <<Op("read", DiskUri, None)>>
        /\ List(s, "idle", x) = <<>>
    BY ScanLists
  <2> QED BY <1>a, <2>1, Zenon
<1>3. Head(List(s, "note", x)) = Op("scanned", DiskUri, None) /\ Tail(List(s, "note", x)) = List(s, "file", x)
  <2>1. /\ List(s, "note", x) = <<Op("scanned", DiskUri, None), Op("symbol", DiskUri, x), Op("sema", DiskUri, x)>>
        /\ List(s, "file", x) = <<Op("symbol", DiskUri, x), Op("sema", DiskUri, x)>>
    BY ScanLists
  <2> QED BY <1>c, <2>1, Zenon
<1>4. Head(List(s, "file", x)) = Op("symbol", DiskUri, x) /\ Tail(List(s, "file", x)) = List(s, "put", x)
  <2>1. /\ List(s, "file", x) = <<Op("symbol", DiskUri, x), Op("sema", DiskUri, x)>>
        /\ List(s, "put", x) = <<Op("sema", DiskUri, x)>>
    BY ScanLists
  <2> QED BY <1>b, <2>1, Zenon
<1>5. Head(List(s, "put", x)) = Op("sema", DiskUri, x) /\ Tail(List(s, "put", x)) = List(s, "idle", x)
  <2>1. /\ List(s, "put", x) = <<Op("sema", DiskUri, x)>>
        /\ List(s, "idle", x) = <<>>
    BY ScanLists
  <2> QED BY <1>a, <2>1, Zenon
<1> QED BY <1>1, <1>2, <1>3, <1>4, <1>5, Zenon

(* The first operation and the plan that is left, of the lists              *)
(* of an open document.                                                     *)
LEMMA OpenHeads ==
  ASSUME NEW s, NEW x
  PROVE  /\ Head(List(s, "evict", x)) = Op("evict", s, None) /\ Tail(List(s, "evict", x)) = List(s, "take", x)
         /\ Head(List(s, "unfile", x)) = Op("unsymbol", DiskUri, None) /\ Tail(List(s, "unfile", x)) = List(s, "take", x)
         /\ Head(List(s, "take", x)) = Op("symbol", s, x) /\ Tail(List(s, "take", x)) = List(s, "keep", x)
         /\ Head(List(s, "keep", x)) = Op("sema", s, x) /\ Tail(List(s, "keep", x)) = List(s, "idle", x)
<1>a. \A a : Head(<<a>>) = a /\ Tail(<<a>>) = <<>>
  OBVIOUS
<1>b. \A a, b : Head(<<a, b>>) = a /\ Tail(<<a, b>>) = <<b>>
  OBVIOUS
<1>c. \A a, b, c : Head(<<a, b, c>>) = a /\ Tail(<<a, b, c>>) = <<b, c>>
  OBVIOUS
<1>1. Head(List(s, "evict", x)) = Op("evict", s, None) /\ Tail(List(s, "evict", x)) = List(s, "take", x)
  <2>1. /\ List(s, "evict", x) = <<Op("evict", s, None), Op("symbol", s, x), Op("sema", s, x)>>
        /\ List(s, "take", x) = <<Op("symbol", s, x), Op("sema", s, x)>>
    BY OpenLists
  <2> QED BY <1>c, <2>1, Zenon
<1>2. Head(List(s, "unfile", x)) = Op("unsymbol", DiskUri, None) /\ Tail(List(s, "unfile", x)) = List(s, "take", x)
  <2>1. /\ List(s, "unfile", x) = <<Op("unsymbol", DiskUri, None), Op("symbol", s, x), Op("sema", s, x)>>
        /\ List(s, "take", x) = <<Op("symbol", s, x), Op("sema", s, x)>>
    BY OpenLists
  <2> QED BY <1>c, <2>1, Zenon
<1>3. Head(List(s, "take", x)) = Op("symbol", s, x) /\ Tail(List(s, "take", x)) = List(s, "keep", x)
  <2>1. /\ List(s, "take", x) = <<Op("symbol", s, x), Op("sema", s, x)>>
        /\ List(s, "keep", x) = <<Op("sema", s, x)>>
    BY OpenLists
  <2> QED BY <1>b, <2>1, Zenon
<1>4. Head(List(s, "keep", x)) = Op("sema", s, x) /\ Tail(List(s, "keep", x)) = List(s, "idle", x)
  <2>1. /\ List(s, "keep", x) = <<Op("sema", s, x)>>
        /\ List(s, "idle", x) = <<>>
    BY OpenLists, ScanLists
  <2> QED BY <1>a, <2>1, Zenon
<1> QED BY <1>1, <1>2, <1>3, <1>4, Zenon

(* The first operation and the plan that is left, of the lists              *)
(* that forget or close a document.                                         *)
LEMMA DropHeads ==
  ASSUME NEW s, NEW x
  PROVE  /\ Head(List(s, "drop", x)) = Op("unsymbol", s, None) /\ Tail(List(s, "drop", x)) = List(s, "remove", x)
         /\ Head(List(s, "remove", x)) = Op("unsema", s, None) /\ Tail(List(s, "remove", x)) = List(s, "idle", x)
         /\ Head(List(s, "close", x)) = Op("unsymbol", s, None) /\ Tail(List(s, "close", x)) = List(s, "recheck", x)
         /\ Head(List(s, "recheck", x)) = Op("checkOrForget", DiskUri, None) /\ Tail(List(s, "recheck", x)) = List(s, "idle", x)
         /\ Head(List(s, "reread", x)) = Op("readOrForget", DiskUri, None) /\ Tail(List(s, "reread", x)) = List(s, "idle", x)
<1>a. \A a : Head(<<a>>) = a /\ Tail(<<a>>) = <<>>
  OBVIOUS
<1>b. \A a, b : Head(<<a, b>>) = a /\ Tail(<<a, b>>) = <<b>>
  OBVIOUS
<1>1. Head(List(s, "drop", x)) = Op("unsymbol", s, None) /\ Tail(List(s, "drop", x)) = List(s, "remove", x)
  <2>1. /\ List(s, "drop", x) = <<Op("unsymbol", s, None), Op("unsema", s, None)>>
        /\ List(s, "remove", x) = <<Op("unsema", s, None)>>
    BY DropLists
  <2> QED BY <1>b, <2>1, Zenon
<1>2. Head(List(s, "remove", x)) = Op("unsema", s, None) /\ Tail(List(s, "remove", x)) = List(s, "idle", x)
  <2>1. /\ List(s, "remove", x) = <<Op("unsema", s, None)>>
        /\ List(s, "idle", x) = <<>>
    BY DropLists, ScanLists
  <2> QED BY <1>a, <2>1, Zenon
<1>3. Head(List(s, "close", x)) = Op("unsymbol", s, None) /\ Tail(List(s, "close", x)) = List(s, "recheck", x)
  <2>1. /\ List(s, "close", x) = <<Op("unsymbol", s, None), Op("checkOrForget", DiskUri, None)>>
        /\ List(s, "recheck", x) = <<Op("checkOrForget", DiskUri, None)>>
    BY DropLists
  <2> QED BY <1>b, <2>1, Zenon
<1>4. Head(List(s, "recheck", x)) = Op("checkOrForget", DiskUri, None) /\ Tail(List(s, "recheck", x)) = List(s, "idle", x)
  <2>1. /\ List(s, "recheck", x) = <<Op("checkOrForget", DiskUri, None)>>
        /\ List(s, "idle", x) = <<>>
    BY DropLists, ScanLists
  <2> QED BY <1>a, <2>1, Zenon
<1>5. Head(List(s, "reread", x)) = Op("readOrForget", DiskUri, None) /\ Tail(List(s, "reread", x)) = List(s, "idle", x)
  <2>1. /\ List(s, "reread", x) = <<Op("readOrForget", DiskUri, None)>>
        /\ List(s, "idle", x) = <<>>
    BY DropLists, ScanLists
  <2> QED BY <1>a, <2>1, Zenon
<1> QED BY <1>1, <1>2, <1>3, <1>4, <1>5, Zenon

(* The first operation and the plan that is left, of the lists              *)
(* that forget both copies.                                                 *)
LEMMA OtherHeads ==
  ASSUME NEW s, NEW x
  PROVE  /\ Head(List(s, "both", x)) = Op("unsymbol", s, None) /\ Tail(List(s, "both", x)) = List(s, "rest", x)
         /\ Head(List(s, "rest", x)) = Op("unsema", s, None) /\ Tail(List(s, "rest", x)) = List(s, "dropDisk", x)
         /\ Head(List(s, "dropDisk", x)) = Op("unsymbol", DiskUri, None) /\ Tail(List(s, "dropDisk", x)) = List(s, "removeDisk", x)
         /\ Head(List(s, "removeDisk", x)) = Op("unsema", DiskUri, None) /\ Tail(List(s, "removeDisk", x)) = List(s, "idle", x)
<1>a. \A a : Head(<<a>>) = a /\ Tail(<<a>>) = <<>>
  OBVIOUS
<1>b. \A a, b : Head(<<a, b>>) = a /\ Tail(<<a, b>>) = <<b>>
  OBVIOUS
<1>c. \A a, b, c : Head(<<a, b, c>>) = a /\ Tail(<<a, b, c>>) = <<b, c>>
  OBVIOUS
<1>d. ASSUME NEW a, NEW b, NEW c, NEW d
      PROVE  Head(<<a, b, c, d>>) = a /\ Tail(<<a, b, c, d>>) = <<b, c, d>>
  OBVIOUS
<1>1. Head(List(s, "both", x)) = Op("unsymbol", s, None) /\ Tail(List(s, "both", x)) = List(s, "rest", x)
  <2>1. /\ List(s, "both", x) = <<Op("unsymbol", s, None), Op("unsema", s, None), Op("unsymbol", DiskUri, None), Op("unsema", DiskUri, None)>>
        /\ List(s, "rest", x) = <<Op("unsema", s, None), Op("unsymbol", DiskUri, None), Op("unsema", DiskUri, None)>>
    BY OtherLists
  <2>2. LET l == <<Op("unsymbol", s, None), Op("unsema", s, None),
                   Op("unsymbol", DiskUri, None), Op("unsema", DiskUri, None)>>
        IN  /\ Head(l) = Op("unsymbol", s, None)
            /\ Tail(l) = <<Op("unsema", s, None), Op("unsymbol", DiskUri, None), Op("unsema", DiskUri, None)>>
    BY <1>d
  <2> QED BY <2>1, <2>2, Zenon
<1>2. Head(List(s, "rest", x)) = Op("unsema", s, None) /\ Tail(List(s, "rest", x)) = List(s, "dropDisk", x)
  <2>1. /\ List(s, "rest", x) = <<Op("unsema", s, None), Op("unsymbol", DiskUri, None), Op("unsema", DiskUri, None)>>
        /\ List(s, "dropDisk", x) = <<Op("unsymbol", DiskUri, None), Op("unsema", DiskUri, None)>>
    BY OtherLists
  <2> QED BY <1>c, <2>1, Zenon
<1>3. Head(List(s, "dropDisk", x)) = Op("unsymbol", DiskUri, None) /\ Tail(List(s, "dropDisk", x)) = List(s, "removeDisk", x)
  <2>1. /\ List(s, "dropDisk", x) = <<Op("unsymbol", DiskUri, None), Op("unsema", DiskUri, None)>>
        /\ List(s, "removeDisk", x) = <<Op("unsema", DiskUri, None)>>
    BY OtherLists
  <2> QED BY <1>b, <2>1, Zenon
<1>4. Head(List(s, "removeDisk", x)) = Op("unsema", DiskUri, None) /\ Tail(List(s, "removeDisk", x)) = List(s, "idle", x)
  <2>1. /\ List(s, "removeDisk", x) = <<Op("unsema", DiskUri, None)>>
        /\ List(s, "idle", x) = <<>>
    BY OtherLists, ScanLists
  <2> QED BY <1>a, <2>1, Zenon
<1> QED BY <1>1, <1>2, <1>3, <1>4, Zenon

(* Nothing is put before what is left, and only an idle goroutine has       *)
(* nothing left.                                                            *)
LEMMA NoneBefore ==
  ASSUME NEW s, NEW x, NEW p \in Plans
  PROVE  <<>> \o List(s, p, x) = List(s, p, x) /\ (p # "idle" => List(s, p, x) # <<>>)
<1>1. CASE p = "idle"
  <2>1. List(s, p, x) = <<>>
    BY <1>1, ScanLists
  <2> QED BY <1>1, <2>1
<1>2. CASE p = "check"
  <2>1. List(s, p, x) = <<Op("check", DiskUri, None)>>
    BY <1>2, ScanLists
  <2> QED BY <2>1
<1>3. CASE p = "read"
  <2>1. List(s, p, x) = <<Op("read", DiskUri, None)>>
    BY <1>3, ScanLists
  <2> QED BY <2>1
<1>4. CASE p = "note"
  <2>1. List(s, p, x) = <<Op("scanned", DiskUri, None), Op("symbol", DiskUri, x), Op("sema", DiskUri, x)>>
    BY <1>4, ScanLists
  <2> QED BY <2>1
<1>5. CASE p = "file"
  <2>1. List(s, p, x) = <<Op("symbol", DiskUri, x), Op("sema", DiskUri, x)>>
    BY <1>5, ScanLists
  <2> QED BY <2>1
<1>6. CASE p = "put"
  <2>1. List(s, p, x) = <<Op("sema", DiskUri, x)>>
    BY <1>6, ScanLists
  <2> QED BY <2>1
<1>7. CASE p = "evict"
  <2>1. List(s, p, x) = <<Op("evict", s, None), Op("symbol", s, x), Op("sema", s, x)>>
    BY <1>7, OpenLists
  <2> QED BY <2>1
<1>8. CASE p = "unfile"
  <2>1. List(s, p, x) = <<Op("unsymbol", DiskUri, None), Op("symbol", s, x), Op("sema", s, x)>>
    BY <1>8, OpenLists
  <2> QED BY <2>1
<1>9. CASE p = "take"
  <2>1. List(s, p, x) = <<Op("symbol", s, x), Op("sema", s, x)>>
    BY <1>9, OpenLists
  <2> QED BY <2>1
<1>10. CASE p = "keep"
  <2>1. List(s, p, x) = <<Op("sema", s, x)>>
    BY <1>10, OpenLists
  <2> QED BY <2>1
<1>11. CASE p = "drop"
  <2>1. List(s, p, x) = <<Op("unsymbol", s, None), Op("unsema", s, None)>>
    BY <1>11, DropLists
  <2> QED BY <2>1
<1>12. CASE p = "remove"
  <2>1. List(s, p, x) = <<Op("unsema", s, None)>>
    BY <1>12, DropLists
  <2> QED BY <2>1
<1>13. CASE p = "both"
  <2>1. List(s, p, x) = <<Op("unsymbol", s, None), Op("unsema", s, None), Op("unsymbol", DiskUri, None), Op("unsema", DiskUri, None)>>
    BY <1>13, OtherLists
  <2> QED BY <2>1
<1>14. CASE p = "rest"
  <2>1. List(s, p, x) = <<Op("unsema", s, None), Op("unsymbol", DiskUri, None), Op("unsema", DiskUri, None)>>
    BY <1>14, OtherLists
  <2> QED BY <2>1
<1>15. CASE p = "dropDisk"
  <2>1. List(s, p, x) = <<Op("unsymbol", DiskUri, None), Op("unsema", DiskUri, None)>>
    BY <1>15, OtherLists
  <2> QED BY <2>1
<1>16. CASE p = "removeDisk"
  <2>1. List(s, p, x) = <<Op("unsema", DiskUri, None)>>
    BY <1>16, OtherLists
  <2> QED BY <2>1
<1>17. CASE p = "close"
  <2>1. List(s, p, x) = <<Op("unsymbol", s, None), Op("checkOrForget", DiskUri, None)>>
    BY <1>17, DropLists
  <2> QED BY <2>1
<1>18. CASE p = "recheck"
  <2>1. List(s, p, x) = <<Op("checkOrForget", DiskUri, None)>>
    BY <1>18, DropLists
  <2> QED BY <2>1
<1>19. CASE p = "reread"
  <2>1. List(s, p, x) = <<Op("readOrForget", DiskUri, None)>>
    BY <1>19, DropLists
  <2> QED BY <2>1
<1> QED BY <1>1, <1>2, <1>3, <1>4, <1>5, <1>6, <1>7, <1>8, <1>9, <1>10,
          <1>11, <1>12, <1>13, <1>14, <1>15, <1>16, <1>17, <1>18, <1>19, Zenon
     DEF Plans, ScanPlans, FilingPlans, OpenPlans, DropPlans, OtherPlans, ClosePlans

(* A goroutine follows its plan.                                            *)
LEMMA Moved ==
  ASSUME NEW g \in {"reader", "scan"}, IndexOp(g), FiledInv, NEW p \in Plans, NEW x,
         work[g] = List(spelling, p, x)
  PROVE  /\ Quiet
         /\ \E q \in Plans : \E y : Moves(p, x, q, y) /\ work' = [work EXCEPT ![g] = List(spelling, q, y)]
<1> DEFINE L(q, y) == work' = [work EXCEPT ![g] = List(spelling, q, y)]
<1>a. /\ {"idle", "check", "read", "note", "file", "put", "evict", "unfile", "take", "keep"} \subseteq Plans
      /\ {"drop", "remove", "both", "rest", "dropDisk", "removeDisk", "close", "recheck", "reread"} \subseteq Plans
  BY DEF Plans, ScanPlans, FilingPlans, OpenPlans, DropPlans, OtherPlans, ClosePlans
<1>d. Skipped(FALSE) = <<>> /\ Skipped(TRUE) = IF doc.open THEN <<>> ELSE <<Op("unsema", spelling, None)>>
  BY DEF Skipped
<1>f. /\ List(spelling, "idle", x) = <<>> /\ List(spelling, "remove", x) = <<Op("unsema", spelling, None)>>
      /\ List(spelling, "read", x) = <<Op("read", DiskUri, None)>>
      /\ List(spelling, "reread", x) = <<Op("readOrForget", DiskUri, None)>>
      /\ List(spelling, "note", disk) =
           <<Op("scanned", DiskUri, None), Op("symbol", DiskUri, disk), Op("sema", DiskUri, disk)>>
  BY ScanLists, DropLists, Zenon
<1>h. /\ <<>> \o <<>> = <<>> /\ (\A a : <<a>> \o <<>> = <<a>>)
      /\ (\A a, b, c : <<a, b, c>> \o <<>> = <<a, b, c>>) /\ (\A a, b, c : <<a>> \o <<b, c>> = <<a, b, c>>)
  BY Joins, Zenon
<1>e. <<>> \o <<>> = List(spelling, "idle", x) /\ <<Op("unsema", spelling, None)>> \o <<>> = List(spelling, "remove", x)
  BY <1>f, <1>h, Zenon
<1>b. SUFFICES Quiet /\ \E q \in Plans : \E y : Moves(p, x, q, y) /\ L(q, y)
  BY Zenon
<1>c. CASE p = "idle"
  <2>1. work[g] = <<>>
    BY <1>c, ScanLists, Zenon
  <2> QED BY <2>1, Zenon DEF IndexOp, symbolUpdate, PutFile, RemoveFile, evictScannedEntryFor, checkFile,
                readFile, noteScanned, Is
<1>1. CASE p = "note"
  <2>1. Head(work[g]) = Op("scanned", DiskUri, None) /\ Tail(work[g]) = List(spelling, "file", x)
    BY <1>1, ScanHeads
  <2>a. Runs(g, "scanned", DiskUri, None, List(spelling, "file", x))
    BY <2>1, Effects, Zenon
  <2>2. /\ Quiet /\ scanned' = DiskUri /\ UNCHANGED <<symbols, facts, byURI, skipped>>
        /\ work' = [work EXCEPT ![g] = <<>> \o List(spelling, "file", x)]
    BY <2>a, Zenon DEF Runs
  <2>3. Moves(p, x, "file", x)
    BY <1>1, <2>2, Zenon DEF Moves
  <2> QED BY <1>a, <2>2, <2>3, NoneBefore, Zenon
<1>2. CASE p = "file"
  <2>1. Head(work[g]) = Op("symbol", DiskUri, x) /\ Tail(work[g]) = List(spelling, "put", x)
    BY <1>2, ScanHeads
  <2>a. Runs(g, "symbol", DiskUri, x, List(spelling, "put", x))
    BY <2>1, Effects, Zenon
  <2>2. /\ Quiet /\ symbols' = [symbols EXCEPT ![DiskUri] = x] /\ UNCHANGED <<scanned, facts, byURI, skipped>>
        /\ work' = [work EXCEPT ![g] = <<>> \o List(spelling, "put", x)]
    BY <2>a, Zenon DEF Runs
  <2>3. Moves(p, x, "put", x)
    BY <1>2, <2>2, Zenon DEF Moves
  <2> QED BY <1>a, <2>2, <2>3, NoneBefore, Zenon
<1>3. CASE p = "put"
  <2>1. Head(work[g]) = Op("sema", DiskUri, x) /\ Tail(work[g]) = List(spelling, "idle", x)
    BY <1>3, ScanHeads
  <2>a. Runs(g, "sema", DiskUri, x, List(spelling, "idle", x))
    BY <2>1, Effects, Zenon
  <2>2. /\ Quiet /\ Put(DiskUri, x) /\ UNCHANGED <<scanned, symbols, skipped>>
        /\ work' = [work EXCEPT ![g] = <<>> \o List(spelling, "idle", x)]
    BY <2>a, Zenon DEF Runs
  <2>3. Moves(p, x, "idle", x)
    BY <1>3, <2>2, Zenon DEF Moves
  <2> QED BY <1>a, <2>2, <2>3, NoneBefore, Zenon
<1>4. CASE p = "unfile"
  <2>1. Head(work[g]) = Op("unsymbol", DiskUri, None) /\ Tail(work[g]) = List(spelling, "take", x)
    BY <1>4, OpenHeads
  <2>a. Runs(g, "unsymbol", DiskUri, None, List(spelling, "take", x))
    BY <2>1, Effects, Zenon
  <2>2. /\ Quiet /\ symbols' = [symbols EXCEPT ![DiskUri] = None] /\ UNCHANGED <<scanned, facts, byURI, skipped>>
        /\ work' = [work EXCEPT ![g] = <<>> \o List(spelling, "take", x)]
    BY <2>a DEF Runs
  <2>3. Moves(p, x, "take", x)
    BY <1>4, <2>2, Zenon DEF Moves
  <2> QED BY <1>a, <2>2, <2>3, NoneBefore, Zenon
<1>5. CASE p = "take"
  <2>1. Head(work[g]) = Op("symbol", spelling, x) /\ Tail(work[g]) = List(spelling, "keep", x)
    BY <1>5, OpenHeads
  <2>a. Runs(g, "symbol", spelling, x, List(spelling, "keep", x))
    BY <2>1, Effects, Zenon
  <2>2. /\ Quiet /\ symbols' = [symbols EXCEPT ![spelling] = x] /\ UNCHANGED <<scanned, facts, byURI, skipped>>
        /\ work' = [work EXCEPT ![g] = <<>> \o List(spelling, "keep", x)]
    BY <2>a DEF Runs
  <2>3. Moves(p, x, "keep", x)
    BY <1>5, <2>2, Zenon DEF Moves
  <2> QED BY <1>a, <2>2, <2>3, NoneBefore, Zenon
<1>6. CASE p = "keep"
  <2>1. Head(work[g]) = Op("sema", spelling, x) /\ Tail(work[g]) = List(spelling, "idle", x)
    BY <1>6, OpenHeads
  <2>a. Runs(g, "sema", spelling, x, List(spelling, "idle", x))
    BY <2>1, Effects, Zenon
  <2>2. /\ Quiet /\ Put(spelling, x) /\ UNCHANGED <<scanned, symbols, skipped>>
        /\ work' = [work EXCEPT ![g] = <<>> \o List(spelling, "idle", x)]
    BY <2>a DEF Runs
  <2>3. Moves(p, x, "idle", x)
    BY <1>6, <2>2, Zenon DEF Moves
  <2> QED BY <1>a, <2>2, <2>3, NoneBefore, Zenon
<1>7. CASE p = "drop"
  <2>1. Head(work[g]) = Op("unsymbol", spelling, None) /\ Tail(work[g]) = List(spelling, "remove", x)
    BY <1>7, DropHeads
  <2>a. Runs(g, "unsymbol", spelling, None, List(spelling, "remove", x))
    BY <2>1, Effects, Zenon
  <2>2. /\ Quiet /\ symbols' = [symbols EXCEPT ![spelling] = None] /\ UNCHANGED <<scanned, facts, byURI, skipped>>
        /\ work' = [work EXCEPT ![g] = <<>> \o List(spelling, "remove", x)]
    BY <2>a DEF Runs
  <2>3. Moves(p, x, "remove", x)
    BY <1>7, <2>2, Zenon DEF Moves
  <2> QED BY <1>a, <2>2, <2>3, NoneBefore, Zenon
<1>8. CASE p = "remove"
  <2>1. Head(work[g]) = Op("unsema", spelling, None) /\ Tail(work[g]) = List(spelling, "idle", x)
    BY <1>8, DropHeads
  <2>a. Runs(g, "unsema", spelling, None, List(spelling, "idle", x))
    BY <2>1, Effects, Zenon
  <2>2. /\ Quiet /\ Removed(spelling) /\ UNCHANGED <<scanned, symbols, skipped>>
        /\ work' = [work EXCEPT ![g] = <<>> \o List(spelling, "idle", x)]
    BY <2>a DEF Runs
  <2>3. Moves(p, x, "idle", x)
    BY <1>8, <2>2, Zenon DEF Moves
  <2> QED BY <1>a, <2>2, <2>3, NoneBefore, Zenon
<1>9. CASE p = "both"
  <2>1. Head(work[g]) = Op("unsymbol", spelling, None) /\ Tail(work[g]) = List(spelling, "rest", x)
    BY <1>9, OtherHeads
  <2>a. Runs(g, "unsymbol", spelling, None, List(spelling, "rest", x))
    BY <2>1, Effects, Zenon
  <2>2. /\ Quiet /\ symbols' = [symbols EXCEPT ![spelling] = None] /\ UNCHANGED <<scanned, facts, byURI, skipped>>
        /\ work' = [work EXCEPT ![g] = <<>> \o List(spelling, "rest", x)]
    BY <2>a DEF Runs
  <2>3. Moves(p, x, "rest", x)
    BY <1>9, <2>2, Zenon DEF Moves
  <2> QED BY <1>a, <2>2, <2>3, NoneBefore, Zenon
<1>10. CASE p = "rest"
  <2>1. Head(work[g]) = Op("unsema", spelling, None) /\ Tail(work[g]) = List(spelling, "dropDisk", x)
    BY <1>10, OtherHeads
  <2>a. Runs(g, "unsema", spelling, None, List(spelling, "dropDisk", x))
    BY <2>1, Effects, Zenon
  <2>2. /\ Quiet /\ Removed(spelling) /\ UNCHANGED <<scanned, symbols, skipped>>
        /\ work' = [work EXCEPT ![g] = <<>> \o List(spelling, "dropDisk", x)]
    BY <2>a DEF Runs
  <2>3. Moves(p, x, "dropDisk", x)
    BY <1>10, <2>2, Zenon DEF Moves
  <2> QED BY <1>a, <2>2, <2>3, NoneBefore, Zenon
<1>11. CASE p = "dropDisk"
  <2>1. Head(work[g]) = Op("unsymbol", DiskUri, None) /\ Tail(work[g]) = List(spelling, "removeDisk", x)
    BY <1>11, OtherHeads
  <2>a. Runs(g, "unsymbol", DiskUri, None, List(spelling, "removeDisk", x))
    BY <2>1, Effects, Zenon
  <2>2. /\ Quiet /\ symbols' = [symbols EXCEPT ![DiskUri] = None] /\ UNCHANGED <<scanned, facts, byURI, skipped>>
        /\ work' = [work EXCEPT ![g] = <<>> \o List(spelling, "removeDisk", x)]
    BY <2>a DEF Runs
  <2>3. Moves(p, x, "removeDisk", x)
    BY <1>11, <2>2, Zenon DEF Moves
  <2> QED BY <1>a, <2>2, <2>3, NoneBefore, Zenon
<1>12. CASE p = "removeDisk"
  <2>1. Head(work[g]) = Op("unsema", DiskUri, None) /\ Tail(work[g]) = List(spelling, "idle", x)
    BY <1>12, OtherHeads
  <2>a. Runs(g, "unsema", DiskUri, None, List(spelling, "idle", x))
    BY <2>1, Effects, Zenon
  <2>2. /\ Quiet /\ Removed(DiskUri) /\ UNCHANGED <<scanned, symbols, skipped>>
        /\ work' = [work EXCEPT ![g] = <<>> \o List(spelling, "idle", x)]
    BY <2>a, Zenon DEF Runs
  <2>3. Moves(p, x, "idle", x)
    BY <1>12, <2>2, Zenon DEF Moves
  <2> QED BY <1>a, <2>2, <2>3, NoneBefore, Zenon
<1>13. CASE p = "close"
  <2>1. Head(work[g]) = Op("unsymbol", spelling, None) /\ Tail(work[g]) = List(spelling, "recheck", x)
    BY <1>13, DropHeads
  <2>a. Runs(g, "unsymbol", spelling, None, List(spelling, "recheck", x))
    BY <2>1, Effects, Zenon
  <2>2. /\ Quiet /\ symbols' = [symbols EXCEPT ![spelling] = None] /\ UNCHANGED <<scanned, facts, byURI, skipped>>
        /\ work' = [work EXCEPT ![g] = <<>> \o List(spelling, "recheck", x)]
    BY <2>a DEF Runs
  <2>3. Moves(p, x, "recheck", x)
    BY <1>13, <2>2, Zenon DEF Moves
  <2> QED BY <1>a, <2>2, <2>3, NoneBefore, Zenon
<1>14. CASE p = "evict"
  <2>1. Head(work[g]) = Op("evict", spelling, None) /\ Tail(work[g]) = List(spelling, "take", x)
    BY <1>14, OpenHeads
  <2>a. Runs(g, "evict", spelling, None, List(spelling, "take", x))
    BY <2>1, Effects, Zenon
  <2>2. /\ Quiet /\ scanned' = "" /\ UNCHANGED <<symbols, facts, byURI, skipped>>
        /\ work' = [work EXCEPT ![g] =
             (IF scanned \in {"", spelling} THEN <<>>
              ELSE <<Op("unsymbol", scanned, None)>> \o forgetSplitModule(scanned)) \o List(spelling, "take", x)]
    BY <2>a, Zenon DEF Runs
  <2>3. CASE scanned \in {"", spelling}
    <3>1. work' = [work EXCEPT ![g] = <<>> \o List(spelling, "take", x)]
      BY <2>2, <2>3, Zenon
    <3>2. Moves(p, x, "take", x)
      BY <1>14, <2>2, <2>3, Zenon DEF Moves
    <3>3. L("take", x)
      BY <1>a, <3>1, NoneBefore
    <3> QED BY <1>a, <2>2, <3>2, <3>3, Zenon
  <2>4. CASE scanned \notin {"", spelling}
    <3>1. scanned = DiskUri
      BY <2>4, Zenon DEF FiledInv
    <3>s. <<Op("unsymbol", scanned, None)>> \o forgetSplitModule(scanned) = <<Op("unsymbol", scanned, None)>>
      <4>1. ModuleKey[DiskUri] = "module" /\ ModuleKey[spelling] = "module"
        BY FiledInv, Zenon DEF ModuleKey, FiledInv, Uris
      <4>2. forgetSplitModule(scanned) = <<>>
        BY <3>1, <4>1, Zenon DEF forgetSplitModule
      <4> QED BY <1>h, <4>2, Zenon
    <3>2. List(spelling, "take", x) = <<Op("symbol", spelling, x), Op("sema", spelling, x)>>
      BY OpenLists, Zenon
    <3>u. List(spelling, "unfile", x) = <<Op("unsymbol", DiskUri, None), Op("symbol", spelling, x), Op("sema", spelling, x)>>
      BY OpenLists, Zenon
    <3>3. <<Op("unsymbol", scanned, None)>> \o List(spelling, "take", x) = List(spelling, "unfile", x)
      BY <1>h, <3>1, <3>2, <3>u, Zenon
    <3>4. L("unfile", x)
      BY <2>2, <2>4, <3>s, <3>3, Zenon
    <3>5. Moves(p, x, "unfile", x)
      BY <1>14, <2>2, <2>4, Zenon DEF Moves
    <3> QED BY <1>a, <2>2, <3>4, <3>5, Zenon
  <2> QED BY <2>3, <2>4, Zenon
<1>15. CASE p = "check"
  <2>1. Head(work[g]) = Op("check", DiskUri, None) /\ Tail(work[g]) = <<>>
    BY <1>15, <1>f, ScanHeads, ZenonT(30)
  <2>a. Runs(g, "check", DiskUri, None, <<>>)
    BY <2>1, Effects, Zenon
  <2>2. /\ Quiet /\ UNCHANGED <<scanned, symbols, facts, byURI>>
        /\ \/ work' = [work EXCEPT ![g] = Skipped(FALSE) \o <<>>] /\ MaySkip
           \/ /\ disk # None /\ ~doc.open /\ UNCHANGED skipped
              /\ work' = [work EXCEPT ![g] = <<Op("read", DiskUri, None)>> \o <<>>]
    BY <2>a, Zenon DEF Runs
  <2>3. CASE work' = [work EXCEPT ![g] = Skipped(FALSE) \o <<>>] /\ MaySkip
    <3>1. L("idle", x)
      BY <1>d, <1>e, <2>3, Zenon
    <3>2. Moves(p, x, "idle", x)
      BY <1>15, <2>2, <2>3, Zenon DEF Moves, Instead
    <3> QED BY <1>a, <2>2, <3>1, <3>2, Zenon
  <2>4. CASE /\ disk # None /\ ~doc.open /\ UNCHANGED skipped
            /\ work' = [work EXCEPT ![g] = <<Op("read", DiskUri, None)>> \o <<>>]
    <3>1. L("read", x)
      BY <2>4, <1>f, <1>h, Zenon
    <3>2. Moves(p, x, "read", x)
      BY <1>15, <2>2, <2>4, Zenon DEF Moves
    <3> QED BY <1>a, <2>2, <3>1, <3>2, Zenon
  <2> QED BY <2>2, <2>3, <2>4, Zenon
<1>16. CASE p = "recheck"
  <2>1. Head(work[g]) = Op("checkOrForget", DiskUri, None) /\ Tail(work[g]) = <<>>
    BY <1>16, <1>f, DropHeads, Zenon
  <2>a. Runs(g, "checkOrForget", DiskUri, None, <<>>)
    BY <2>1, Effects, Zenon
  <2>2. /\ Quiet /\ UNCHANGED <<scanned, symbols, facts, byURI>>
        /\ \/ work' = [work EXCEPT ![g] = Skipped(TRUE) \o <<>>] /\ MaySkip
           \/ /\ disk # None /\ ~doc.open /\ UNCHANGED skipped
              /\ work' = [work EXCEPT ![g] = <<Op("readOrForget", DiskUri, None)>> \o <<>>]
    BY <2>a, Zenon DEF Runs
  <2>3. CASE work' = [work EXCEPT ![g] = Skipped(TRUE) \o <<>>] /\ MaySkip
    <3>1. CASE ~doc.open
      <4>1. L("remove", x)
        BY <1>d, <1>e, <2>3, <3>1, Zenon
      <4>2. Moves(p, x, "remove", x)
        BY <1>16, <2>2, <2>3, <3>1, Zenon DEF Moves, Instead
      <4> QED BY <1>a, <2>2, <4>1, <4>2, Zenon
    <3>2. CASE doc.open
      <4>1. L("idle", x)
        BY <1>d, <1>e, <2>3, <3>2, Zenon
      <4>2. Moves(p, x, "idle", x)
        BY <1>16, <2>2, <2>3, <3>2, Zenon DEF Moves, Instead
      <4> QED BY <1>a, <2>2, <4>1, <4>2, Zenon
    <3> QED BY <3>1, <3>2, Zenon
  <2>4. CASE /\ disk # None /\ ~doc.open /\ UNCHANGED skipped
            /\ work' = [work EXCEPT ![g] = <<Op("readOrForget", DiskUri, None)>> \o <<>>]
    <3>1. L("reread", x)
      BY <2>4, <1>f, <1>h, Zenon
    <3>2. Moves(p, x, "reread", x)
      BY <1>16, <2>2, <2>4, Zenon DEF Moves
    <3> QED BY <1>a, <2>2, <3>1, <3>2, Zenon
  <2> QED BY <2>2, <2>3, <2>4, Zenon
<1>17. CASE p = "read"
  <2>1. Head(work[g]) = Op("read", DiskUri, None) /\ Tail(work[g]) = <<>>
    BY <1>17, <1>f, ScanHeads, Zenon
  <2>a. Runs(g, "read", DiskUri, None, <<>>)
    BY <2>1, Effects, Zenon
  <2>2. /\ Quiet /\ UNCHANGED <<scanned, symbols, facts, byURI>>
        /\ \/ work' = [work EXCEPT ![g] = Skipped(FALSE) \o <<>>] /\ MaySkip
           \/ /\ disk # None /\ UNCHANGED skipped
              /\ work' = [work EXCEPT ![g] = <<Op("scanned", DiskUri, None), Op("symbol", DiskUri, disk), Op("sema", DiskUri, disk)>> \o <<>>]
    BY <2>a, Zenon DEF Runs
  <2>3. CASE work' = [work EXCEPT ![g] = Skipped(FALSE) \o <<>>] /\ MaySkip
    <3>1. L("idle", x)
      BY <1>d, <1>e, <2>3, Zenon
    <3>2. Moves(p, x, "idle", x)
      BY <1>17, <2>2, <2>3, Zenon DEF Moves, Instead
    <3> QED BY <1>a, <2>2, <3>1, <3>2, Zenon
  <2>4. CASE /\ disk # None /\ UNCHANGED skipped
            /\ work' = [work EXCEPT ![g] = <<Op("scanned", DiskUri, None), Op("symbol", DiskUri, disk), Op("sema", DiskUri, disk)>> \o <<>>]
    <3>1. L("note", disk)
      BY <2>4, <1>f, <1>h, Zenon
    <3>2. Moves(p, x, "note", disk)
      BY <1>17, <2>2, <2>4, Zenon DEF Moves
    <3> QED BY <1>a, <2>2, <3>1, <3>2, Zenon
  <2> QED BY <2>2, <2>3, <2>4, Zenon
<1>18. CASE p = "reread"
  <2>1. Head(work[g]) = Op("readOrForget", DiskUri, None) /\ Tail(work[g]) = <<>>
    BY <1>18, <1>f, DropHeads, Zenon
  <2>a. Runs(g, "readOrForget", DiskUri, None, <<>>)
    BY <2>1, Effects, Zenon
  <2>2. /\ Quiet /\ UNCHANGED <<scanned, symbols, facts, byURI>>
        /\ \/ work' = [work EXCEPT ![g] = Skipped(TRUE) \o <<>>] /\ MaySkip
           \/ /\ disk # None /\ UNCHANGED skipped
              /\ work' = [work EXCEPT ![g] = <<Op("scanned", DiskUri, None), Op("symbol", DiskUri, disk), Op("sema", DiskUri, disk)>> \o <<>>]
    BY <2>a, Zenon DEF Runs
  <2>3. CASE work' = [work EXCEPT ![g] = Skipped(TRUE) \o <<>>] /\ MaySkip
    <3>1. CASE ~doc.open
      <4>1. L("remove", x)
        BY <1>d, <1>e, <2>3, <3>1, Zenon
      <4>2. Moves(p, x, "remove", x)
        BY <1>18, <2>2, <2>3, <3>1, Zenon DEF Moves, Instead
      <4> QED BY <1>a, <2>2, <4>1, <4>2, Zenon
    <3>2. CASE doc.open
      <4>1. L("idle", x)
        BY <1>d, <1>e, <2>3, <3>2, Zenon
      <4>2. Moves(p, x, "idle", x)
        BY <1>18, <2>2, <2>3, <3>2, Zenon DEF Moves, Instead
      <4> QED BY <1>a, <2>2, <4>1, <4>2, Zenon
    <3> QED BY <3>1, <3>2, Zenon
  <2>4. CASE /\ disk # None /\ UNCHANGED skipped
            /\ work' = [work EXCEPT ![g] = <<Op("scanned", DiskUri, None), Op("symbol", DiskUri, disk), Op("sema", DiskUri, disk)>> \o <<>>]
    <3>1. L("note", disk)
      BY <2>4, <1>f, <1>h, Zenon
    <3>2. Moves(p, x, "note", disk)
      BY <1>18, <2>2, <2>4, Zenon DEF Moves
    <3> QED BY <1>a, <2>2, <3>1, <3>2, Zenon
  <2> QED BY <2>2, <2>3, <2>4, Zenon
<1> QED BY <1>c, <1>1, <1>2, <1>3, <1>4, <1>5, <1>6, <1>7, <1>8, <1>9, <1>10,
          <1>11, <1>12, <1>13, <1>14, <1>15, <1>16, <1>17, <1>18, Zenon
     DEF Plans, ScanPlans, FilingPlans, OpenPlans, DropPlans, OtherPlans, ClosePlans

(* A step of the scan keeps what is filed.                                  *)
LEMMA ScanMoves ==
  ASSUME FiledInv, disk \in Nat \cup {None}, NEW p \in Plans, NEW x, NEW q \in Plans, NEW y,
         Filed(p, x, q, y), NEW q2 \in Plans, NEW y2, Moves(q, y, q2, y2), Quiet
  PROVE  FiledInv' /\ Filed(p, x, q2, y2)'
<1> USE DEF FilingPlans, ScanPlans, OpenPlans, DropPlans, OtherPlans, ClosePlans
<1>a. UNCHANGED <<doc, spelling, disk, raced, Told>>
  BY DEF Quiet, editor, store, Told
<1>b. ScanInv(q, y) /\ ReaderInv(p, x) /\ (~raced => IF doc.open THEN OpenFiled(p) ELSE ClosedFiled(p, q))
  BY DEF Filed
<1>1. CASE q = "check"
  <2>1. /\ UNCHANGED <<scanned, symbols, facts, byURI>>
        /\ \/ q2 = "idle" /\ MaySkip
           \/ q2 = "read" /\ disk # None /\ ~doc.open /\ UNCHANGED skipped
    BY <1>1, Zenon DEF Moves, Instead
  <2>2. FiledInv'
    BY <1>a, <1>1, <2>1, Zenon DEF FiledInv, Uris, DiskUri, Nobody, MaySkip
  <2>3. ScanInv(q2, y2)'
    BY <1>a, <1>b, <1>1, <2>1 DEF ScanInv, ReaderInv, MaySkip
  <2>4. ReaderInv(p, x)'
    BY <1>a, <1>b, <1>1, <2>1, FiledInv, Zenon DEF ReaderInv, FiledInv, MaySkip
  <2>5. ASSUME ~raced, doc.open PROVE OpenFiled(p)'
    BY <1>a, <1>b, <1>1, <2>1, <2>5, FiledInv, Zenon
    DEF ScanInv, ReaderInv, OpenFiled, Wanted, FiledInv, Uris, DiskUri, Nobody, MaySkip
  <2>6. ASSUME ~raced, ~doc.open PROVE ClosedFiled(p, q2)'
    BY <1>a, <1>b, <1>1, <2>1, <2>6, FiledInv, Zenon
    DEF ScanInv, ReaderInv, ClosedFiled, WillFile, FiledInv, Uris, DiskUri, Nobody, MaySkip
  <2> QED BY <1>a, <2>2, <2>3, <2>4, <2>5, <2>6 DEF Filed
<1>2. CASE q = "read"
  <2>1. /\ UNCHANGED <<scanned, symbols, facts, byURI>>
        /\ \/ q2 = "idle" /\ MaySkip
           \/ q2 = "note" /\ y2 = disk /\ disk # None /\ UNCHANGED skipped
    BY <1>2, Zenon DEF Moves, Instead
  <2>2. FiledInv'
    BY <1>a, <1>2, <2>1, Zenon DEF FiledInv, Uris, DiskUri, Nobody, MaySkip
  <2>3. ScanInv(q2, y2)'
    BY <1>a, <1>b, <1>2, <2>1 DEF ScanInv, ReaderInv, MaySkip
  <2>4. ReaderInv(p, x)'
    BY <1>a, <1>b, <1>2, <2>1, FiledInv, Zenon DEF ReaderInv, FiledInv, MaySkip
  <2>5. ASSUME ~raced, doc.open PROVE OpenFiled(p)'
    BY <1>a, <1>b, <1>2, <2>1, <2>5, FiledInv, Zenon
    DEF ScanInv, ReaderInv, OpenFiled, Wanted, FiledInv, Uris, DiskUri, Nobody, MaySkip
  <2>6. ASSUME ~raced, ~doc.open PROVE ClosedFiled(p, q2)'
    BY <1>a, <1>b, <1>2, <2>1, <2>6, FiledInv, Zenon
    DEF ScanInv, ReaderInv, ClosedFiled, WillFile, FiledInv, Uris, DiskUri, Nobody, MaySkip
  <2> QED BY <1>a, <2>2, <2>3, <2>4, <2>5, <2>6 DEF Filed
<1>3. CASE q = "note"
  <2>1. q2 = "file" /\ y2 = y /\ scanned' = DiskUri /\ UNCHANGED <<symbols, facts, byURI, skipped>>
    BY <1>3, Zenon DEF Moves, Instead
  <2>2. FiledInv'
    BY <1>a, <1>3, <2>1, Zenon DEF FiledInv, Uris, DiskUri, Nobody
  <2>3. ScanInv(q2, y2)'
    BY <1>a, <1>b, <1>3, <2>1 DEF ScanInv, ReaderInv
  <2>4. ReaderInv(p, x)'
    BY <1>a, <1>b, <1>3, <2>1, FiledInv, Zenon DEF ReaderInv, FiledInv
  <2>5. ASSUME ~raced, doc.open PROVE OpenFiled(p)'
    BY <1>a, <1>b, <1>3, <2>1, <2>5, FiledInv, Zenon
    DEF ScanInv, ReaderInv, OpenFiled, Wanted, FiledInv, Uris, DiskUri, Nobody
  <2>6. ASSUME ~raced, ~doc.open PROVE ClosedFiled(p, q2)'
    BY <1>a, <1>b, <1>3, <2>1, <2>6, FiledInv, Zenon
    DEF ScanInv, ReaderInv, ClosedFiled, WillFile, FiledInv, Uris, DiskUri, Nobody
  <2> QED BY <1>a, <2>2, <2>3, <2>4, <2>5, <2>6 DEF Filed
<1>4. CASE q = "file"
  <2>1. q2 = "put" /\ y2 = y /\ symbols' = [symbols EXCEPT ![DiskUri] = y] /\ UNCHANGED <<scanned, facts, byURI, skipped>>
    BY <1>4, Zenon DEF Moves, Instead
  <2>2. FiledInv'
    BY <1>a, <1>4, <2>1, Zenon DEF FiledInv, Uris, DiskUri, Nobody
  <2>3. ScanInv(q2, y2)'
    BY <1>a, <1>b, <1>4, <2>1, Zenon DEF ScanInv, ReaderInv
  <2>4. ReaderInv(p, x)'
    BY <1>a, <1>b, <1>4, <2>1, FiledInv, Zenon DEF ReaderInv, FiledInv
  <2>5. ASSUME ~raced, doc.open PROVE OpenFiled(p)'
    BY <1>a, <1>b, <1>4, <2>1, <2>5, FiledInv, Zenon
    DEF ScanInv, ReaderInv, OpenFiled, Wanted, FiledInv, Uris, DiskUri, Nobody
  <2>6. ASSUME ~raced, ~doc.open PROVE ClosedFiled(p, q2)'
    BY <1>a, <1>b, <1>4, <2>1, <2>6, FiledInv, Zenon
    DEF ScanInv, ReaderInv, ClosedFiled, WillFile, FiledInv, Uris, DiskUri, Nobody
  <2> QED BY <1>a, <2>2, <2>3, <2>4, <2>5, <2>6 DEF Filed
<1>5. CASE q = "put"
  <2>1. q2 = "idle" /\ Put(DiskUri, y) /\ UNCHANGED <<scanned, symbols, skipped>>
    BY <1>5, Zenon DEF Moves, Instead
  <2>2. FiledInv'
    BY <1>a, <1>5, <2>1, Zenon DEF FiledInv, Uris, DiskUri, Nobody, Put
  <2>3. ScanInv(q2, y2)'
    BY <1>a, <1>b, <1>5, <2>1 DEF ScanInv, ReaderInv
  <2>4. ReaderInv(p, x)'
    BY <1>a, <1>b, <1>5, <2>1, FiledInv, Zenon DEF ReaderInv, FiledInv
  <2>5. ASSUME ~raced, doc.open PROVE OpenFiled(p)'
    BY <1>a, <1>b, <1>5, <2>1, <2>5, FiledInv, Zenon
    DEF ScanInv, ReaderInv, OpenFiled, Wanted, FiledInv, Uris, DiskUri, Nobody, Put
  <2>6. ASSUME ~raced, ~doc.open PROVE ClosedFiled(p, q2)'
    BY <1>a, <1>b, <1>5, <2>1, <2>6, FiledInv, Zenon
    DEF ScanInv, ReaderInv, ClosedFiled, WillFile, FiledInv, Uris, DiskUri, Nobody, Put
  <2> QED BY <1>a, <2>2, <2>3, <2>4, <2>5, <2>6 DEF Filed
<1>6. q \in {"check", "read", "note", "file", "put"}
  BY <1>b, Zenon DEF ScanInv, Moves
<1> QED BY <1>1, <1>2, <1>3, <1>4, <1>5, <1>6

(* A step of the reader keeps what is filed.                                *)
LEMMA ReaderMoves ==
  ASSUME FiledInv, disk \in Nat \cup {None}, NEW p \in Plans, NEW x, NEW q \in Plans, NEW y,
         Filed(p, x, q, y), NEW p2 \in Plans, NEW x2, Moves(p, x, p2, x2), Quiet
  PROVE  FiledInv' /\ Filed(p2, x2, q, y)'
<1> USE DEF FilingPlans, ScanPlans, OpenPlans, DropPlans, OtherPlans, ClosePlans
<1>a. UNCHANGED <<doc, spelling, disk, raced, Told>>
  BY DEF Quiet, editor, store, Told
<1>b. ScanInv(q, y) /\ ReaderInv(p, x) /\ (~raced => IF doc.open THEN OpenFiled(p) ELSE ClosedFiled(p, q))
  BY DEF Filed
<1>1. CASE p = "check"
  <2>1. /\ UNCHANGED <<scanned, symbols, facts, byURI>>
        /\ \/ p2 = "idle" /\ MaySkip
           \/ p2 = "read" /\ disk # None /\ ~doc.open /\ UNCHANGED skipped
    BY <1>1, Zenon DEF Moves, Instead
  <2>2. FiledInv'
    BY <1>a, <1>1, <2>1, Zenon DEF FiledInv, Uris, DiskUri, Nobody, MaySkip
  <2>3. ScanInv(q, y)'
    BY <1>a, <1>b, <1>1, <2>1, Zenon DEF ScanInv, ReaderInv, MaySkip
  <2>4. ReaderInv(p2, x2)'
    BY <1>a, <1>b, <1>1, <2>1, FiledInv, Zenon DEF ReaderInv, FiledInv, MaySkip
  <2>5. ASSUME ~raced, doc.open PROVE OpenFiled(p2)'
    BY <1>a, <1>b, <1>1, <2>1, <2>5, FiledInv, Zenon
    DEF ScanInv, ReaderInv, OpenFiled, Wanted, FiledInv, Uris, DiskUri, Nobody, MaySkip
  <2>6. ASSUME ~raced, ~doc.open PROVE ClosedFiled(p2, q)'
    BY <1>a, <1>b, <1>1, <2>1, <2>6, FiledInv, Zenon
    DEF ScanInv, ReaderInv, ClosedFiled, WillFile, FiledInv, Uris, DiskUri, Nobody, MaySkip
  <2> QED BY <1>a, <2>2, <2>3, <2>4, <2>5, <2>6 DEF Filed
<1>2. CASE p = "read"
  <2>1. /\ UNCHANGED <<scanned, symbols, facts, byURI>>
        /\ \/ p2 = "idle" /\ MaySkip
           \/ p2 = "note" /\ x2 = disk /\ disk # None /\ UNCHANGED skipped
    BY <1>2, Zenon DEF Moves, Instead
  <2>2. FiledInv'
    BY <1>a, <1>2, <2>1, Zenon DEF FiledInv, Uris, DiskUri, Nobody, MaySkip
  <2>3. ScanInv(q, y)'
    BY <1>a, <1>b, <1>2, <2>1, Zenon DEF ScanInv, ReaderInv, MaySkip
  <2>4. ReaderInv(p2, x2)'
    BY <1>a, <1>b, <1>2, <2>1, FiledInv, Zenon DEF ReaderInv, FiledInv, MaySkip
  <2>5. ASSUME ~raced, doc.open PROVE OpenFiled(p2)'
    BY <1>a, <1>b, <1>2, <2>1, <2>5, FiledInv, Zenon
    DEF ScanInv, ReaderInv, OpenFiled, Wanted, FiledInv, Uris, DiskUri, Nobody, MaySkip
  <2>6. ASSUME ~raced, ~doc.open PROVE ClosedFiled(p2, q)'
    BY <1>a, <1>b, <1>2, <2>1, <2>6, FiledInv, Zenon
    DEF ScanInv, ReaderInv, ClosedFiled, WillFile, FiledInv, Uris, DiskUri, Nobody, MaySkip
  <2> QED BY <1>a, <2>2, <2>3, <2>4, <2>5, <2>6 DEF Filed
<1>3. CASE p = "note"
  <2>1. p2 = "file" /\ x2 = x /\ scanned' = DiskUri /\ UNCHANGED <<symbols, facts, byURI, skipped>>
    BY <1>3, Zenon DEF Moves, Instead
  <2>2. FiledInv'
    BY <1>a, <1>3, <2>1, Zenon DEF FiledInv, Uris, DiskUri, Nobody
  <2>3. ScanInv(q, y)'
    BY <1>a, <1>b, <1>3, <2>1, Zenon DEF ScanInv, ReaderInv
  <2>4. ReaderInv(p2, x2)'
    BY <1>a, <1>b, <1>3, <2>1, FiledInv, Zenon DEF ReaderInv, FiledInv
  <2>5. ASSUME ~raced, doc.open PROVE OpenFiled(p2)'
    BY <1>a, <1>b, <1>3, <2>1, <2>5, FiledInv, Zenon
    DEF ScanInv, ReaderInv, OpenFiled, Wanted, FiledInv, Uris, DiskUri, Nobody
  <2>6. ASSUME ~raced, ~doc.open PROVE ClosedFiled(p2, q)'
    BY <1>a, <1>b, <1>3, <2>1, <2>6, FiledInv, Zenon
    DEF ScanInv, ReaderInv, ClosedFiled, WillFile, FiledInv, Uris, DiskUri, Nobody
  <2> QED BY <1>a, <2>2, <2>3, <2>4, <2>5, <2>6 DEF Filed
<1>4. CASE p = "file"
  <2>1. p2 = "put" /\ x2 = x /\ symbols' = [symbols EXCEPT ![DiskUri] = x] /\ UNCHANGED <<scanned, facts, byURI, skipped>>
    BY <1>4, Zenon DEF Moves, Instead
  <2>2. FiledInv'
    BY <1>a, <1>4, <2>1, Zenon DEF FiledInv, Uris, DiskUri, Nobody
  <2>3. ScanInv(q, y)'
    BY <1>a, <1>b, <1>4, <2>1 DEF ScanInv, ReaderInv
  <2>4. ReaderInv(p2, x2)'
    BY <1>a, <1>b, <1>4, <2>1, FiledInv, Zenon DEF ReaderInv, FiledInv
  <2>5. ASSUME ~raced, doc.open PROVE OpenFiled(p2)'
    BY <1>a, <1>b, <1>4, <2>1, <2>5, FiledInv, Zenon
    DEF ScanInv, ReaderInv, OpenFiled, Wanted, FiledInv, Uris, DiskUri, Nobody
  <2>6. ASSUME ~raced, ~doc.open PROVE ClosedFiled(p2, q)'
    BY <1>a, <1>b, <1>4, <2>1, <2>6, FiledInv, Zenon
    DEF ScanInv, ReaderInv, ClosedFiled, WillFile, FiledInv, Uris, DiskUri, Nobody
  <2> QED BY <1>a, <2>2, <2>3, <2>4, <2>5, <2>6 DEF Filed
<1>5. CASE p = "put"
  <2>1. p2 = "idle" /\ Put(DiskUri, x) /\ UNCHANGED <<scanned, symbols, skipped>>
    BY <1>5, Zenon DEF Moves, Instead
  <2>2. FiledInv'
    BY <1>a, <1>5, <2>1, Zenon DEF FiledInv, Uris, DiskUri, Nobody, Put
  <2>3. ScanInv(q, y)'
    BY <1>a, <1>b, <1>5, <2>1, Zenon DEF ScanInv, ReaderInv
  <2>4. ReaderInv(p2, x2)'
    BY <1>a, <1>b, <1>5, <2>1, FiledInv, Zenon DEF ReaderInv, FiledInv
  <2>5. ASSUME ~raced, doc.open PROVE OpenFiled(p2)'
    BY <1>a, <1>b, <1>5, <2>1, <2>5, FiledInv, Zenon
    DEF ScanInv, ReaderInv, OpenFiled, Wanted, FiledInv, Uris, DiskUri, Nobody, Put
  <2>6. ASSUME ~raced, ~doc.open PROVE ClosedFiled(p2, q)'
    BY <1>a, <1>b, <1>5, <2>1, <2>6, FiledInv, Zenon
    DEF ScanInv, ReaderInv, ClosedFiled, WillFile, FiledInv, Uris, DiskUri, Nobody, Put
  <2> QED BY <1>a, <2>2, <2>3, <2>4, <2>5, <2>6 DEF Filed
<1>6. CASE p = "evict"
  <2>1. scanned' = "" /\ x2 = x /\ UNCHANGED <<symbols, facts, byURI, skipped>> /\ p2 = IF scanned \in {"", spelling} THEN "take" ELSE "unfile"
    BY <1>6, Zenon DEF Moves, Instead
  <2>2. FiledInv'
    BY <1>a, <1>6, <2>1, Zenon DEF FiledInv, Uris, DiskUri, Nobody
  <2>3. ScanInv(q, y)'
    BY <1>a, <1>b, <1>6, <2>1, Zenon DEF ScanInv, ReaderInv
  <2>4. ReaderInv(p2, x2)'
    BY <1>a, <1>b, <1>6, <2>1, FiledInv, Zenon DEF ReaderInv, FiledInv
  <2>5. ASSUME ~raced, doc.open PROVE OpenFiled(p2)'
    BY <1>a, <1>b, <1>6, <2>1, <2>5, FiledInv, Zenon
    DEF ScanInv, ReaderInv, OpenFiled, Wanted, FiledInv, Uris, DiskUri, Nobody
  <2>6. ASSUME ~raced, ~doc.open PROVE ClosedFiled(p2, q)'
    BY <1>a, <1>b, <1>6, <2>1, <2>6, FiledInv, Zenon
    DEF ScanInv, ReaderInv, ClosedFiled, WillFile, FiledInv, Uris, DiskUri, Nobody
  <2> QED BY <1>a, <2>2, <2>3, <2>4, <2>5, <2>6 DEF Filed
<1>7. CASE p = "unfile"
  <2>1. p2 = "take" /\ x2 = x /\ symbols' = [symbols EXCEPT ![DiskUri] = None] /\ UNCHANGED <<scanned, facts, byURI, skipped>>
    BY <1>7, Zenon DEF Moves, Instead
  <2>2. FiledInv'
    BY <1>a, <1>7, <2>1, Zenon DEF FiledInv, Uris, DiskUri, Nobody
  <2>3. ScanInv(q, y)'
    BY <1>a, <1>b, <1>7, <2>1, Zenon DEF ScanInv, ReaderInv
  <2>4. ReaderInv(p2, x2)'
    BY <1>a, <1>b, <1>7, <2>1, FiledInv, Zenon DEF ReaderInv, FiledInv
  <2>5. ASSUME ~raced, doc.open PROVE OpenFiled(p2)'
    BY <1>a, <1>b, <1>7, <2>1, <2>5, FiledInv, Zenon
    DEF ScanInv, ReaderInv, OpenFiled, Wanted, FiledInv, Uris, DiskUri, Nobody
  <2>6. ASSUME ~raced, ~doc.open PROVE ClosedFiled(p2, q)'
    BY <1>a, <1>b, <1>7, <2>1, <2>6, FiledInv, Zenon
    DEF ScanInv, ReaderInv, ClosedFiled, WillFile, FiledInv, Uris, DiskUri, Nobody
  <2> QED BY <1>a, <2>2, <2>3, <2>4, <2>5, <2>6 DEF Filed
<1>8. CASE p = "take"
  <2>1. p2 = "keep" /\ x2 = x /\ symbols' = [symbols EXCEPT ![spelling] = x] /\ UNCHANGED <<scanned, facts, byURI, skipped>>
    BY <1>8, Zenon DEF Moves, Instead
  <2>2. FiledInv'
    BY <1>a, <1>8, <2>1, Zenon DEF FiledInv, Uris, DiskUri, Nobody
  <2>3. ScanInv(q, y)'
    BY <1>a, <1>b, <1>8, <2>1, Zenon DEF ScanInv, ReaderInv
  <2>4. ReaderInv(p2, x2)'
    BY <1>a, <1>b, <1>8, <2>1, FiledInv, Zenon DEF ReaderInv, FiledInv
  <2>5. ASSUME ~raced, doc.open PROVE OpenFiled(p2)'
    BY <1>a, <1>b, <1>8, <2>1, <2>5, FiledInv, Zenon
    DEF ScanInv, ReaderInv, OpenFiled, Wanted, FiledInv, Uris, DiskUri, Nobody
  <2>6. ASSUME ~raced, ~doc.open PROVE ClosedFiled(p2, q)'
    BY <1>a, <1>b, <1>8, <2>1, <2>6, FiledInv, Zenon
    DEF ScanInv, ReaderInv, ClosedFiled, WillFile, FiledInv, Uris, DiskUri, Nobody
  <2> QED BY <1>a, <2>2, <2>3, <2>4, <2>5, <2>6 DEF Filed
<1>9. CASE p = "keep"
  <2>1. p2 = "idle" /\ Put(spelling, x) /\ UNCHANGED <<scanned, symbols, skipped>>
    BY <1>9, Zenon DEF Moves, Instead
  <2>2. FiledInv'
    BY <1>a, <1>9, <2>1, Zenon DEF FiledInv, Uris, DiskUri, Nobody, Put
  <2>3. ScanInv(q, y)'
    BY <1>a, <1>b, <1>9, <2>1, Zenon DEF ScanInv, ReaderInv
  <2>4. ReaderInv(p2, x2)'
    BY <1>a, <1>b, <1>9, <2>1, FiledInv, Zenon DEF ReaderInv, FiledInv
  <2>5. ASSUME ~raced, doc.open PROVE OpenFiled(p2)'
    BY <1>a, <1>b, <1>9, <2>1, <2>5, FiledInv, Zenon
    DEF ScanInv, ReaderInv, OpenFiled, Wanted, FiledInv, Uris, DiskUri, Nobody, Put
  <2>6. ASSUME ~raced, ~doc.open PROVE ClosedFiled(p2, q)'
    BY <1>a, <1>b, <1>9, <2>1, <2>6, FiledInv, Zenon
    DEF ScanInv, ReaderInv, ClosedFiled, WillFile, FiledInv, Uris, DiskUri, Nobody, Put
  <2> QED BY <1>a, <2>2, <2>3, <2>4, <2>5, <2>6 DEF Filed
<1>10. CASE p = "drop"
  <2>1. p2 = "remove" /\ x2 = x /\ symbols' = [symbols EXCEPT ![spelling] = None] /\ UNCHANGED <<scanned, facts, byURI, skipped>>
    BY <1>10, Zenon DEF Moves, Instead
  <2>2. FiledInv'
    BY <1>a, <1>10, <2>1, Zenon DEF FiledInv, Uris, DiskUri, Nobody
  <2>3. ScanInv(q, y)'
    BY <1>a, <1>b, <1>10, <2>1, Zenon DEF ScanInv, ReaderInv
  <2>4. ReaderInv(p2, x2)'
    BY <1>a, <1>b, <1>10, <2>1, FiledInv, Zenon DEF ReaderInv, FiledInv
  <2>5. ASSUME ~raced, doc.open PROVE OpenFiled(p2)'
    BY <1>a, <1>b, <1>10, <2>1, <2>5, FiledInv, Zenon
    DEF ScanInv, ReaderInv, OpenFiled, Wanted, FiledInv, Uris, DiskUri, Nobody
  <2>6. ASSUME ~raced, ~doc.open PROVE ClosedFiled(p2, q)'
    BY <1>a, <1>b, <1>10, <2>1, <2>6, FiledInv, Zenon
    DEF ScanInv, ReaderInv, ClosedFiled, WillFile, FiledInv, Uris, DiskUri, Nobody
  <2> QED BY <1>a, <2>2, <2>3, <2>4, <2>5, <2>6 DEF Filed
<1>11. CASE p = "remove"
  <2>1. p2 = "idle" /\ Removed(spelling) /\ UNCHANGED <<scanned, symbols, skipped>>
    BY <1>11, Zenon DEF Moves, Instead
  <2>2. FiledInv'
    BY <1>a, <1>11, <2>1, Zenon DEF FiledInv, Uris, DiskUri, Nobody, Removed
  <2>3. ScanInv(q, y)'
    BY <1>a, <1>b, <1>11, <2>1, Zenon DEF ScanInv, ReaderInv
  <2>4. ReaderInv(p2, x2)'
    BY <1>a, <1>b, <1>11, <2>1, FiledInv, Zenon DEF ReaderInv, FiledInv
  <2>5. ASSUME ~raced, doc.open PROVE OpenFiled(p2)'
    <3>1. doc.desynced /\ OpenFiled("remove")
      BY <1>b, <1>11, <2>5 DEF ReaderInv
    <3>2. Wanted = None /\ Wanted' = None
      BY <1>a, <3>1 DEF Wanted
    <3>3. facts' = Nobody
      BY <2>1, <3>1, FiledInv, Zenon DEF OpenFiled, FiledInv, Removed
    <3>4. symbols'[spelling] = None /\ (spelling # DiskUri => symbols'[DiskUri] = None)
      BY <2>1, <3>1, <3>2, Zenon DEF OpenFiled
    <3> QED BY <1>a, <2>1, <3>2, <3>3, <3>4, Zenon DEF OpenFiled, Nobody
  <2>6. ASSUME ~raced, ~doc.open PROVE ClosedFiled(p2, q)'
    <3>1. facts' = Nobody \/ (facts' = facts /\ facts.uri # spelling)
      BY <2>1, FiledInv, Zenon DEF FiledInv, Removed
    <3>2. Nobody.uri = "" /\ Nobody.uri # spelling
      BY FiledInv, Zenon DEF FiledInv, Uris, DiskUri, Nobody
    <3>3. ClosedFiled(p, q) /\ ReaderInv(p, x)
      BY <1>b, <2>6, Zenon
    <3>4. UNCHANGED <<doc, spelling, disk, Told, skipped, scanned, symbols>>
      BY <1>a, <2>1, Zenon
    <3>7. Told => disk = None \/ skipped
      BY <1>11, <2>6, <3>3, Zenon DEF ReaderInv
    <3>8. /\ facts = Nobody \/ facts.uri = spelling \/ scanned = DiskUri
          /\ spelling # DiskUri => symbols[spelling] = None /\ (symbols[DiskUri] = None \/ scanned = DiskUri)
          /\ Told /\ disk = None => (facts = Nobody \/ facts.uri = spelling) /\ symbols[DiskUri] = None
      BY <1>11, <3>3, Zenon DEF ClosedFiled
    <3>9. Told' => disk' = None \/ skipped'
      BY <3>4, <3>7
    <3>5. CASE facts' = Nobody
      BY <2>1, <3>2, <3>4, <3>5, <3>8, <3>9, Zenon DEF ClosedFiled
    <3>6. CASE facts' = facts /\ facts.uri # spelling
      BY <2>1, <3>4, <3>6, <3>8, <3>9, Zenon DEF ClosedFiled
    <3> QED BY <3>1, <3>5, <3>6, Zenon
  <2> QED BY <1>a, <2>2, <2>3, <2>4, <2>5, <2>6 DEF Filed
<1>12. CASE p = "both"
  <2>1. p2 = "rest" /\ x2 = x /\ symbols' = [symbols EXCEPT ![spelling] = None] /\ UNCHANGED <<scanned, facts, byURI, skipped>>
    BY <1>12, Zenon DEF Moves, Instead
  <2>2. FiledInv'
    BY <1>a, <1>12, <2>1, Zenon DEF FiledInv, Uris, DiskUri, Nobody
  <2>3. ScanInv(q, y)'
    BY <1>a, <1>b, <1>12, <2>1, Zenon DEF ScanInv, ReaderInv
  <2>4. ReaderInv(p2, x2)'
    BY <1>a, <1>b, <1>12, <2>1, FiledInv, Zenon DEF ReaderInv, FiledInv
  <2>5. ASSUME ~raced, doc.open PROVE OpenFiled(p2)'
    BY <1>a, <1>b, <1>12, <2>1, <2>5, FiledInv, Zenon
    DEF ScanInv, ReaderInv, OpenFiled, Wanted, FiledInv, Uris, DiskUri, Nobody
  <2>6. ASSUME ~raced, ~doc.open PROVE ClosedFiled(p2, q)'
    BY <1>a, <1>b, <1>12, <2>1, <2>6, FiledInv, Zenon
    DEF ScanInv, ReaderInv, ClosedFiled, WillFile, FiledInv, Uris, DiskUri, Nobody
  <2> QED BY <1>a, <2>2, <2>3, <2>4, <2>5, <2>6 DEF Filed
<1>13. CASE p = "rest"
  <2>1. p2 = "dropDisk" /\ Removed(spelling) /\ UNCHANGED <<scanned, symbols, skipped>>
    BY <1>13, Zenon DEF Moves, Instead
  <2>2. FiledInv'
    BY <1>a, <1>13, <2>1, Zenon DEF FiledInv, Uris, DiskUri, Nobody, Removed
  <2>3. ScanInv(q, y)'
    BY <1>a, <1>b, <1>13, <2>1, Zenon DEF ScanInv, ReaderInv
  <2>4. ReaderInv(p2, x2)'
    BY <1>a, <1>b, <1>13, <2>1, FiledInv, Zenon DEF ReaderInv, FiledInv
  <2>5. ASSUME ~raced, doc.open PROVE OpenFiled(p2)'
    BY <1>a, <1>b, <1>13, <2>1, <2>5, FiledInv, Zenon
    DEF ScanInv, ReaderInv, OpenFiled, Wanted, FiledInv, Uris, DiskUri, Nobody, Removed
  <2>6. ASSUME ~raced, ~doc.open PROVE ClosedFiled(p2, q)'
    <3>1. facts' = Nobody \/ (facts' = facts /\ facts.uri # spelling)
      BY <2>1, FiledInv, Zenon DEF FiledInv, Removed
    <3>2. Nobody.uri = "" /\ Nobody.uri # spelling
      BY FiledInv, Zenon DEF FiledInv, Uris, DiskUri, Nobody
    <3>3. ClosedFiled(p, q) /\ ReaderInv(p, x)
      BY <1>b, <2>6, Zenon
    <3>4. UNCHANGED <<doc, spelling, disk, Told, skipped, scanned, symbols>>
      BY <1>a, <2>1, Zenon
    <3>5. CASE facts' = Nobody
      BY <1>13, <2>1, <2>6, <3>2, <3>3, <3>4, <3>5, Zenon DEF ReaderInv, ClosedFiled, WillFile
    <3>6. CASE facts' = facts /\ facts.uri # spelling
      BY <1>13, <2>1, <2>6, <3>3, <3>4, <3>6, Zenon DEF ReaderInv, ClosedFiled, WillFile
    <3> QED BY <3>1, <3>5, <3>6, Zenon
  <2> QED BY <1>a, <2>2, <2>3, <2>4, <2>5, <2>6 DEF Filed
<1>14. CASE p = "dropDisk"
  <2>1. p2 = "removeDisk" /\ x2 = x /\ symbols' = [symbols EXCEPT ![DiskUri] = None] /\ UNCHANGED <<scanned, facts, byURI, skipped>>
    BY <1>14, Zenon DEF Moves, Instead
  <2>2. FiledInv'
    BY <1>a, <1>14, <2>1, Zenon DEF FiledInv, Uris, DiskUri, Nobody
  <2>3. ScanInv(q, y)'
    BY <1>a, <1>b, <1>14, <2>1, Zenon DEF ScanInv, ReaderInv
  <2>4. ReaderInv(p2, x2)'
    BY <1>a, <1>b, <1>14, <2>1, FiledInv, Zenon DEF ReaderInv, FiledInv
  <2>5. ASSUME ~raced, doc.open PROVE OpenFiled(p2)'
    BY <1>a, <1>b, <1>14, <2>1, <2>5, FiledInv, Zenon
    DEF ScanInv, ReaderInv, OpenFiled, Wanted, FiledInv, Uris, DiskUri, Nobody
  <2>6. ASSUME ~raced, ~doc.open PROVE ClosedFiled(p2, q)'
    BY <1>a, <1>b, <1>14, <2>1, <2>6, FiledInv, Zenon
    DEF ScanInv, ReaderInv, ClosedFiled, WillFile, FiledInv, Uris, DiskUri, Nobody
  <2> QED BY <1>a, <2>2, <2>3, <2>4, <2>5, <2>6 DEF Filed
<1>15. CASE p = "removeDisk"
  <2>1. p2 = "idle" /\ Removed(DiskUri) /\ UNCHANGED <<scanned, symbols, skipped>>
    BY <1>15, Zenon DEF Moves, Instead
  <2>2. FiledInv'
    BY <1>a, <1>15, <2>1, Zenon DEF FiledInv, Uris, DiskUri, Nobody, Removed
  <2>3. ScanInv(q, y)'
    BY <1>a, <1>b, <1>15, <2>1, Zenon DEF ScanInv, ReaderInv
  <2>4. ReaderInv(p2, x2)'
    BY <1>a, <1>b, <1>15, <2>1, FiledInv, Zenon DEF ReaderInv, FiledInv
  <2>5. ASSUME ~raced, doc.open PROVE OpenFiled(p2)'
    BY <1>a, <1>b, <1>15, <2>1, <2>5, FiledInv, Zenon
    DEF ScanInv, ReaderInv, OpenFiled, Wanted, FiledInv, Uris, DiskUri, Nobody, Removed
  <2>6. ASSUME ~raced, ~doc.open PROVE ClosedFiled(p2, q)'
    BY <1>a, <1>b, <1>15, <2>1, <2>6, FiledInv, Zenon
    DEF ScanInv, ReaderInv, ClosedFiled, WillFile, FiledInv, Uris, DiskUri, Nobody, Removed
  <2> QED BY <1>a, <2>2, <2>3, <2>4, <2>5, <2>6 DEF Filed
<1>16. CASE p = "close"
  <2>1. p2 = "recheck" /\ x2 = x /\ symbols' = [symbols EXCEPT ![spelling] = None] /\ UNCHANGED <<scanned, facts, byURI, skipped>>
    BY <1>16, Zenon DEF Moves, Instead
  <2>2. FiledInv'
    BY <1>a, <1>16, <2>1, Zenon DEF FiledInv, Uris, DiskUri, Nobody
  <2>3. ScanInv(q, y)'
    BY <1>a, <1>b, <1>16, <2>1, Zenon DEF ScanInv, ReaderInv
  <2>4. ReaderInv(p2, x2)'
    BY <1>a, <1>b, <1>16, <2>1, FiledInv, Zenon DEF ReaderInv, FiledInv
  <2>5. ASSUME ~raced, doc.open PROVE OpenFiled(p2)'
    BY <1>a, <1>b, <1>16, <2>1, <2>5, FiledInv, Zenon
    DEF ScanInv, ReaderInv, OpenFiled, Wanted, FiledInv, Uris, DiskUri, Nobody
  <2>6. ASSUME ~raced, ~doc.open PROVE ClosedFiled(p2, q)'
    BY <1>a, <1>b, <1>16, <2>1, <2>6, FiledInv, Zenon
    DEF ScanInv, ReaderInv, ClosedFiled, WillFile, FiledInv, Uris, DiskUri, Nobody
  <2> QED BY <1>a, <2>2, <2>3, <2>4, <2>5, <2>6 DEF Filed
<1>17. CASE p = "recheck"
  <2>1. /\ UNCHANGED <<scanned, symbols, facts, byURI>>
        /\ \/ p2 = (IF doc.open THEN "idle" ELSE "remove") /\ MaySkip
           \/ p2 = "reread" /\ disk # None /\ ~doc.open /\ UNCHANGED skipped
    BY <1>17, Zenon DEF Moves, Instead
  <2>2. FiledInv'
    BY <1>a, <1>17, <2>1, Zenon DEF FiledInv, Uris, DiskUri, Nobody, MaySkip
  <2>3. ScanInv(q, y)'
    BY <1>a, <1>b, <1>17, <2>1, Zenon DEF ScanInv, ReaderInv, MaySkip
  <2>4. ReaderInv(p2, x2)'
    BY <1>a, <1>b, <1>17, <2>1, FiledInv, Zenon DEF ReaderInv, FiledInv, MaySkip
  <2>5. ASSUME ~raced, doc.open PROVE OpenFiled(p2)'
    BY <1>a, <1>b, <1>17, <2>1, <2>5, FiledInv, Zenon
    DEF ScanInv, ReaderInv, OpenFiled, Wanted, FiledInv, Uris, DiskUri, Nobody, MaySkip
  <2>6. ASSUME ~raced, ~doc.open PROVE ClosedFiled(p2, q)'
    BY <1>a, <1>b, <1>17, <2>1, <2>6, FiledInv, Zenon
    DEF ScanInv, ReaderInv, ClosedFiled, WillFile, FiledInv, Uris, DiskUri, Nobody, MaySkip
  <2> QED BY <1>a, <2>2, <2>3, <2>4, <2>5, <2>6 DEF Filed
<1>18. CASE p = "reread"
  <2>1. /\ UNCHANGED <<scanned, symbols, facts, byURI>>
        /\ \/ p2 = (IF doc.open THEN "idle" ELSE "remove") /\ MaySkip
           \/ p2 = "note" /\ x2 = disk /\ disk # None /\ UNCHANGED skipped
    BY <1>18, Zenon DEF Moves, Instead
  <2>2. FiledInv'
    BY <1>a, <1>18, <2>1, Zenon DEF FiledInv, Uris, DiskUri, Nobody, MaySkip
  <2>3. ScanInv(q, y)'
    BY <1>a, <1>b, <1>18, <2>1, Zenon DEF ScanInv, ReaderInv, MaySkip
  <2>4. ReaderInv(p2, x2)'
    BY <1>a, <1>b, <1>18, <2>1, FiledInv, Zenon DEF ReaderInv, FiledInv, MaySkip
  <2>5. ASSUME ~raced, doc.open PROVE OpenFiled(p2)'
    BY <1>a, <1>b, <1>18, <2>1, <2>5, FiledInv, Zenon
    DEF ScanInv, ReaderInv, OpenFiled, Wanted, FiledInv, Uris, DiskUri, Nobody, MaySkip
  <2>6. ASSUME ~raced, ~doc.open PROVE ClosedFiled(p2, q)'
    BY <1>a, <1>b, <1>18, <2>1, <2>6, FiledInv, Zenon
    DEF ScanInv, ReaderInv, ClosedFiled, WillFile, FiledInv, Uris, DiskUri, Nobody, MaySkip
  <2> QED BY <1>a, <2>2, <2>3, <2>4, <2>5, <2>6 DEF Filed
<1>19. p # "idle"
  BY Zenon DEF Moves
<1> QED BY <1>1, <1>2, <1>3, <1>4, <1>5, <1>6, <1>7, <1>8, <1>9, <1>10,
          <1>11, <1>12, <1>13, <1>14, <1>15, <1>16, <1>17, <1>18, <1>19, Zenon DEF Plans

(* The first notification is handled: what is still on its way.             *)
LEMMA ToldTail ==
  ASSUME DocInv, DiskInv, inbox # <<>>, inbox' = Tail(inbox), UNCHANGED <<disk, client>>
  PROVE  /\ DiskInv'
         /\ ~IsWatched(inbox[1]) /\ Told' => Told
         /\ IsWatched(inbox[1]) /\ Told' => (inbox[1].kind = "deleted" <=> disk = None)
<1> DEFINE n == Len(inbox) - 1
           r == Tail(inbox)
<1>1. inbox \in Seq(MsgSet)
  BY Zenon DEF DocInv, PipeInv
<1>2. n \in Nat /\ Len(r) = n /\ Len(inbox) = n + 1 /\ \A i \in 1..n : r[i] = inbox[i + 1]
  BY <1>1
<1>3. inbox' = r
  OBVIOUS
<1> HIDE DEF n, r
<1>4. DiskInv'
  <2>1. ASSUME NEW i \in 1..n, IsWatched(r[i]), \A j \in (i + 1)..n : ~IsWatched(r[j])
        PROVE  r[i].kind = "deleted" <=> disk = None
    <3>1. i + 1 \in 1..(n + 1) /\ r[i] = inbox[i + 1]
      BY <1>2
    <3>2. ASSUME NEW j \in ((i + 1) + 1)..(n + 1) PROVE ~IsWatched(inbox[j])
      <4>1. j - 1 \in (i + 1)..n /\ j - 1 \in 1..n /\ (j - 1) + 1 = j
        BY <1>2
      <4> QED BY <1>2, <2>1, <4>1, Zenon
    <3> QED BY <1>2, <2>1, <3>1, <3>2, Zenon DEF DiskInv
  <2> QED BY <1>2, <1>3, <2>1, Zenon DEF DiskInv
<1>5. ASSUME Told', NEW j \in 2..(n + 1)
      PROVE  ~IsWatched(inbox[j])
  <2>1. j - 1 \in 1..n /\ (j - 1) + 1 = j
    BY <1>2
  <2>2. ~IsWatched(r[j - 1])
    BY <1>2, <1>3, <1>5, <2>1, Zenon DEF Told
  <2> QED BY <1>2, <2>1, <2>2
<1>6. ASSUME ~IsWatched(inbox[1]), Told' PROVE Told
  BY <1>2, <1>5, <1>6 DEF Told
<1>7. ASSUME IsWatched(inbox[1]), Told' PROVE inbox[1].kind = "deleted" <=> disk = None
  <2>1. 1 \in 1..(n + 1) /\ \A j \in (1 + 1)..(n + 1) : ~IsWatched(inbox[j])
    BY <1>2, <1>5, <1>7
  <2> QED BY <1>2, <1>7, <2>1, Zenon DEF DiskInv
<1> QED BY <1>4, <1>6, <1>7

(* A notification is sent: the last one about the disk says what it holds.  *)
LEMMA ToldAppend ==
  ASSUME DocInv, DiskInv, NEW m, inbox' = Append(inbox, m),
         disk' \in Nat \cup {None}, client'.open => client'.text \in Nat,
         IF IsWatched(m) THEN m.kind = "deleted" <=> disk' = None ELSE disk' = disk
  PROVE  DiskInv' /\ (Told' => Told /\ disk' = disk)
<1> DEFINE n == Len(inbox)
           r == Append(inbox, m)
<1>1. inbox \in Seq(MsgSet)
  BY Zenon DEF DocInv, PipeInv
<1>2. n \in Nat /\ Len(r) = n + 1 /\ r[n + 1] = m /\ \A i \in 1..n : r[i] = inbox[i]
  BY <1>1
<1>3. inbox' = r
  OBVIOUS
<1> HIDE DEF r
<1>4. ASSUME NEW i \in 1..(n + 1), IsWatched(r[i]), \A j \in (i + 1)..(n + 1) : ~IsWatched(r[j])
      PROVE  r[i].kind = "deleted" <=> disk' = None
  <2>1. CASE i = n + 1
    BY <1>2, <1>4, <2>1, Zenon
  <2>2. CASE i # n + 1
    <3>1. i \in 1..n /\ n + 1 \in (i + 1)..(n + 1) /\ r[i] = inbox[i]
      BY <1>2, <2>2
    <3>2. ~IsWatched(m)
      BY <1>2, <1>4, <3>1, Zenon
    <3>3. ASSUME NEW j \in (i + 1)..n PROVE ~IsWatched(inbox[j])
      <4>1. j \in (i + 1)..(n + 1) /\ j \in 1..n
        BY <1>2, <3>1
      <4> QED BY <1>2, <1>4, <4>1, Zenon
    <3> QED BY <1>4, <3>1, <3>2, <3>3, Zenon DEF DiskInv
  <2> QED BY <2>1, <2>2, Zenon
<1>5. DiskInv'
  BY <1>2, <1>3, <1>4, Zenon DEF DiskInv
<1>6. ASSUME Told' PROVE Told /\ disk' = disk
  <2>1. \A i \in 1..(n + 1) : ~IsWatched(r[i])
    BY <1>2, <1>3, <1>6 DEF Told
  <2>2. n + 1 \in 1..(n + 1) /\ \A i \in 1..n : i \in 1..(n + 1)
    BY <1>2
  <2> QED BY <1>2, <2>1, <2>2 DEF Told
<1> QED BY <1>5, <1>6

(* What does not touch the document, the indexes or the goroutines keeps    *)
(* what is filed, if it says that the disk changed.                         *)
LEMMA Frame ==
  ASSUME IndexInv, DiskInv', Told' => Told /\ disk' = disk,
         UNCHANGED <<spelling, doc, scanned, symbols, facts, byURI, work, raced, skipped>>
  PROVE  IndexInv'
<1>1. PICK p \in Plans, q \in Plans : \E x, y :
        /\ work = [reader |-> List(spelling, p, x), scan |-> List(spelling, q, y)]
        /\ Filed(p, x, q, y)
  BY Zenon DEF IndexInv
<1>2. PICK x, y : /\ work = [reader |-> List(spelling, p, x), scan |-> List(spelling, q, y)]
                  /\ Filed(p, x, q, y)
  BY <1>1, Zenon
<1>3. FiledInv'
  BY Zenon DEF IndexInv, FiledInv
<1>4. ScanInv(q, y)' /\ ReaderInv(p, x)'
  BY <1>2, Zenon DEF Filed, ScanInv, ReaderInv
<1>5. ASSUME ~raced, doc.open PROVE OpenFiled(p)'
  BY <1>2, <1>5, Zenon DEF Filed, OpenFiled, Wanted
<1>6. ASSUME ~raced, ~doc.open PROVE ClosedFiled(p, q)'
  BY <1>2, <1>6, Zenon DEF Filed, ClosedFiled
<1>7. Filed(p, x, q, y)'
  BY <1>4, <1>5, <1>6 DEF Filed
<1>8. work' = [reader |-> List(spelling', p, x), scan |-> List(spelling', q, y)]
  BY <1>2, Zenon
<1> QED BY <1>3, <1>7, <1>8, Zenon DEF IndexInv

(* The editor and the disk.                                                 *)
LEMMA ClientIndex ==
  ASSUME DocInv, IndexInv, Client
  PROVE  IndexInv'
<1>1. /\ DiskInv /\ disk \in Nat \cup {None} /\ (client.open => client.text \in Nat)
      /\ fresh \in Nat /\ client \in EditSet
  BY Zenon DEF IndexInv, DiskInv, DocInv, PipeInv
<1>2. UNCHANGED <<spelling, doc, scanned, symbols, facts, byURI, work, raced, skipped>>
  BY Zenon DEF Client, ClientOpen, ClientEdit, ClientClose, DiskWrite, DiskDelete, store, index, editor
<1>3. SUFFICES \E m : /\ inbox' = Append(inbox, m) /\ disk' \in Nat \cup {None}
                      /\ (client'.open => client'.text \in Nat)
                      /\ IF IsWatched(m) THEN m.kind = "deleted" <=> disk' = None ELSE disk' = disk
  BY <1>1, <1>2, ToldAppend, Frame, Zenon
<1>4. CASE ClientOpen
  <2> DEFINE text == IF disk # None THEN disk ELSE fresh
             m == [kind |-> "open", ver |-> 1, changes |-> <<>>, text |-> text]
  <2>1. /\ client' = [open |-> TRUE, ver |-> 1, text |-> text] /\ inbox' = Append(inbox, m)
        /\ disk' = disk
    BY <1>4, Zenon DEF ClientOpen, Send
  <2>2. text \in Nat /\ m.kind = "open"
    BY <1>1
  <2> HIDE DEF text, m
  <2>3. client'.text \in Nat /\ ~IsWatched(m)
    BY <2>1, <2>2 DEF IsWatched
  <2> QED BY <1>1, <2>1, <2>3
<1>5. CASE ClientEdit
  <2> DEFINE at(i) == IF i = 0 THEN client.text ELSE fresh + i - 1
             m(k) == [kind |-> "change", ver |-> client.ver + 1, text |-> at(Len(k)),
                      changes |-> [i \in 1..Len(k) |-> Change(k[i], at(i - 1), at(i))]]
  <2>1. PICK kinds \in {<<k>> : k \in Kinds} \cup (Kinds \X Kinds) :
          /\ client' = [client EXCEPT !.ver = @ + 1, !.text = at(Len(kinds))]
          /\ inbox' = Append(inbox, m(kinds))
    BY <1>5, Zenon DEF ClientEdit, Send
  <2>2. Len(kinds) \in {1, 2}
    <3>1. CASE kinds \in {<<k>> : k \in Kinds}
      BY <3>1
    <3>2. CASE kinds \in Kinds \X Kinds
      BY <3>2
    <3> QED BY <2>1, <3>1, <3>2
  <2>3. at(Len(kinds)) \in Nat
    BY <1>1, <2>2, SMTT(30)
  <2>4. m(kinds).kind = "change" /\ disk' = disk
    BY <1>5 DEF ClientEdit
  <2> HIDE DEF at, m
  <2>5. client'.text \in Nat
    BY <1>1, <2>1, <2>3 DEF EditSet
  <2>6. ~IsWatched(m(kinds))
    BY <2>4 DEF IsWatched
  <2> QED BY <1>1, <2>1, <2>4, <2>5, <2>6
<1>6. CASE ClientClose
  <2> DEFINE m == [kind |-> "close", ver |-> 0, changes |-> <<>>, text |-> None]
  <2>1. client' = [client EXCEPT !.open = FALSE] /\ inbox' = Append(inbox, m) /\ disk' = disk
    BY <1>6 DEF ClientClose, Send
  <2>2. ~client'.open /\ ~IsWatched(m)
    BY <1>1, <2>1 DEF EditSet, IsWatched
  <2> QED BY <1>1, <2>1, <2>2
<1>7. CASE DiskWrite
  <2>1. inbox' = Append(inbox, watched("written")) /\ disk' \in Nat /\ client' = client
    BY <1>1, <1>7 DEF DiskWrite, Send
  <2>2. IsWatched(watched("written")) /\ watched("written").kind = "written" /\ disk' # None
    BY <2>1 DEF IsWatched, watched, None
  <2> QED BY <1>1, <2>1, <2>2
<1>8. CASE DiskDelete
  <2>1. inbox' = Append(inbox, watched("deleted")) /\ disk' = None /\ client' = client
    BY <1>8 DEF DiskDelete, Send, editor
  <2>2. IsWatched(watched("deleted")) /\ watched("deleted").kind = "deleted"
    BY DEF IsWatched, watched
  <2> QED BY <1>1, <2>1, <2>2
<1> QED BY <1>4, <1>5, <1>6, <1>7, <1>8, Client, Zenon DEF Client

(* A handler starts with an idle reader; the scan, if it is under way, has  *)
(* more than its check left.                                                *)
LEMMA Handled ==
  ASSUME DocInv, IndexInv, NEW kind, Handling(kind), UNCHANGED <<spelling, client, disk>>
  PROVE  /\ DiskInv' /\ FiledInv
         /\ inbox[1].kind = kind /\ Head(inbox) = inbox[1] /\ inbox[1].text \in Int
         /\ kind \notin {"written", "deleted"} /\ Told' => Told
         /\ kind = "written" /\ Told' => disk # None
         /\ kind = "deleted" /\ Told' => disk = None
         /\ \E q \in Plans : \E x, y :
              /\ \A ops : Do(ops) => work' = [reader |-> ops, scan |-> List(spelling, q, y)]
              /\ Filed("idle", x, q, y)
              /\ q \notin {"idle", "check"} => MidScan
<1>1. /\ inbox # <<>> /\ inbox' = Tail(inbox) /\ Head(inbox) = inbox[1] /\ inbox[1].kind = kind
      /\ inbox[1].text \in Int
  BY FirstMessage
<1>2. DiskInv /\ FiledInv
  BY DEF IndexInv
<1>3. /\ DiskInv'
      /\ ~IsWatched(inbox[1]) /\ Told' => Told
      /\ IsWatched(inbox[1]) /\ Told' => (inbox[1].kind = "deleted" <=> disk = None)
  BY <1>1, <1>2, ToldTail, Zenon
<1>4. PICK p \in Plans, q \in Plans : \E x, y :
        /\ work = [reader |-> List(spelling, p, x), scan |-> List(spelling, q, y)]
        /\ Filed(p, x, q, y)
  BY Zenon DEF IndexInv
<1>5. PICK x, y : /\ work = [reader |-> List(spelling, p, x), scan |-> List(spelling, q, y)]
                  /\ Filed(p, x, q, y)
  BY <1>4, Zenon
<1>6. p = "idle"
  <2>1. List(spelling, p, x) = <<>>
    BY <1>5 DEF Handling
  <2> QED BY <2>1, NoneBefore
<1>7. ASSUME NEW ops, Do(ops) PROVE work' = [reader |-> ops, scan |-> List(spelling, q, y)]
  BY <1>5, <1>7 DEF Do
<1>8. ASSUME q \notin {"idle", "check"} PROVE MidScan
  <2>1. work.scan = List(spelling, q, y)
    BY <1>5
  <2>2. work.scan # <<>>
    BY <1>8, <2>1, NoneBefore, Zenon
  <2>3. q \in {"read", "note", "file", "put"}
    BY <1>5, <1>8, Zenon DEF Filed, ScanInv, ScanPlans, FilingPlans
  <2>4. \E uri, text : Head(List(spelling, q, y)) \in
          {Op("read", uri, text), Op("scanned", uri, text), Op("symbol", uri, text), Op("sema", uri, text)}
    <3>1. /\ Head(List(spelling, "read", y)) = Op("read", DiskUri, None)
          /\ Head(List(spelling, "note", y)) = Op("scanned", DiskUri, None)
          /\ Head(List(spelling, "file", y)) = Op("symbol", DiskUri, y)
          /\ Head(List(spelling, "put", y)) = Op("sema", DiskUri, y)
      BY ScanHeads, Zenon
    <3>2. CASE q \in {"read", "note"}
      BY <3>1, <3>2
    <3>3. CASE q \in {"file", "put"}
      BY <3>1, <3>3, Zenon
    <3> QED BY <2>3, <3>2, <3>3, Zenon
  <2>5. Head(List(spelling, q, y)).do # "check"
    BY <2>4 DEF Op
  <2>6. Head(<<fromDisk(FALSE)>>) = fromDisk(FALSE) /\ fromDisk(FALSE).do = "check"
    BY DEF fromDisk, Op
  <2> QED BY <2>1, <2>2, <2>5, <2>6, Zenon DEF MidScan
<1> QED BY <1>1, <1>2, <1>3, <1>5, <1>6, <1>7, <1>8, Zenon DEF IsWatched

(* A handler leaves the reader a plan that suits the document.              *)
LEMMA Plan ==
  ASSUME DiskInv', FiledInv', NEW p \in Plans, NEW x, NEW q \in Plans, NEW y,
         work' = [reader |-> List(spelling, p, x), scan |-> List(spelling, q, y)],
         spelling' = spelling, Filed(p, x, q, y)'
  PROVE  IndexInv'
<1>1. work' = [reader |-> List(spelling', p, x), scan |-> List(spelling', q, y)]
  OBVIOUS
<1> QED BY <1>1, Zenon DEF IndexInv

(* didOpen.                                                                 *)
LEMMA OpenIndex ==
  ASSUME DocInv, IndexInv, didOpen
  PROVE  IndexInv'
<1>0. PICK t : t = Head(inbox).text
  OBVIOUS
<1>1. /\ Handling("open") /\ UNCHANGED <<spelling, client, disk, scanned, symbols, facts, byURI>>
      /\ doc' = [open |-> TRUE, ver |-> Head(inbox).ver, text |-> t, desynced |-> FALSE]
      /\ Do(<<Op("evict", spelling, None)>> \o File(t)) /\ Decides(TRUE) /\ skipped' = skipped
  BY <1>0, Zenon DEF didOpen, editor, index
<1>2. DiskInv' /\ FiledInv
  BY <1>1, Handled, Zenon
<1>3. PICK q \in Plans : \E x, y :
        /\ \A ops : Do(ops) => work' = [reader |-> ops, scan |-> List(spelling, q, y)]
        /\ Filed("idle", x, q, y)
        /\ q \notin {"idle", "check"} => MidScan
  BY <1>1, Handled, Zenon
<1>4. PICK x, y : /\ \A ops : Do(ops) => work' = [reader |-> ops, scan |-> List(spelling, q, y)]
                  /\ Filed("idle", x, q, y)
                  /\ q \notin {"idle", "check"} => MidScan
  BY <1>3, Zenon
<1>5. doc'.open = TRUE /\ doc'.desynced = FALSE /\ doc'.text = t
  BY <1>1, Zenon
<1>6. <<Op("evict", spelling, None)>> \o File(t) = List(spelling, "evict", t)
  <2>1. \A a, b, c : <<a>> \o <<b, c>> = <<a, b, c>>
    BY Joins, Zenon
  <2>2. List(spelling, "evict", t) = <<Op("evict", spelling, None), Op("symbol", spelling, t), Op("sema", spelling, t)>>
    BY OpenLists, Zenon
  <2> QED BY <2>1, <2>2, Zenon DEF File
<1>7. work' = [reader |-> List(spelling, "evict", t), scan |-> List(spelling, q, y)]
  BY <1>1, <1>4, <1>6, Zenon
<1>8. FiledInv'
  BY <1>1, <1>2, Zenon DEF FiledInv
<1>9. "evict" \in Plans /\ q \in ScanPlans /\ (~raced' => ~raced /\ q \in {"idle", "check"})
  BY <1>1, <1>4, Zenon DEF Plans, OpenPlans, Filed, ScanInv, Decides
<1>10. ScanInv(q, y)' /\ ReaderInv("evict", t)'
  BY <1>1, <1>5, <1>9, Zenon DEF ScanInv, ReaderInv, OtherPlans, OpenPlans
<1>11. ASSUME ~raced' PROVE OpenFiled("evict")'
  <2>1. spelling # DiskUri => symbols[DiskUri] = None \/ scanned = DiskUri
    BY <1>4, <1>9, <1>11, Zenon DEF Filed, OpenFiled, ClosedFiled, OtherPlans
  <2> QED BY <1>1, <1>5, <2>1, Zenon DEF OpenFiled, DropPlans
<1>12. Filed("evict", t, q, y)'
  BY <1>5, <1>10, <1>11 DEF Filed
<1> QED BY <1>1, <1>2, <1>7, <1>8, <1>9, <1>12, Plan, Zenon

(* didClose.                                                                *)
LEMMA CloseIndex ==
  ASSUME DocInv, IndexInv, didClose
  PROVE  IndexInv'
<1>1. /\ Handling("close") /\ UNCHANGED <<spelling, client, disk, scanned, symbols, facts, byURI>>
      /\ doc' = NoDoc /\ Do(<<Op("unsymbol", spelling, None), fromDisk(TRUE)>>) /\ Decides(TRUE) /\ Attempts(TRUE)
  BY Zenon DEF didClose, editor, index
<1>2. DiskInv' /\ FiledInv /\ (Told' => Told)
  <2>1. "close" \notin {"written", "deleted"}
    OBVIOUS
  <2> QED BY <1>1, <2>1, Handled, Zenon
<1>3. PICK q \in Plans : \E x, y :
        /\ \A ops : Do(ops) => work' = [reader |-> ops, scan |-> List(spelling, q, y)]
        /\ Filed("idle", x, q, y)
        /\ q \notin {"idle", "check"} => MidScan
  BY <1>1, Handled, Zenon
<1>4. PICK x, y : /\ \A ops : Do(ops) => work' = [reader |-> ops, scan |-> List(spelling, q, y)]
                  /\ Filed("idle", x, q, y)
                  /\ q \notin {"idle", "check"} => MidScan
  BY <1>3, Zenon
<1>5. doc'.open = FALSE
  BY <1>1, Zenon DEF NoDoc
<1>6. <<Op("unsymbol", spelling, None), fromDisk(TRUE)>> = List(spelling, "close", x)
  BY DropLists, Zenon DEF fromDisk
<1>7. work' = [reader |-> List(spelling, "close", x), scan |-> List(spelling, q, y)]
  BY <1>1, <1>4, <1>6, Zenon
<1>8. FiledInv'
  BY <1>1, <1>2, Zenon DEF FiledInv
<1>9. "close" \in Plans /\ q \in ScanPlans /\ (~raced' => ~raced /\ q \in {"idle", "check"})
  BY <1>1, <1>4, Zenon DEF Plans, ClosePlans, Filed, ScanInv, Decides
<1>10. ScanInv(q, y)' /\ ReaderInv("close", x)'
  BY <1>1, <1>5, <1>9, Zenon DEF ScanInv, ReaderInv, OtherPlans, OpenPlans, DropPlans, FilingPlans, Plans, ClosePlans
<1>11. ASSUME ~raced' PROVE ClosedFiled("close", q)'
  <2>1. /\ facts = Nobody \/ facts.uri = spelling \/ scanned = DiskUri
        /\ spelling # DiskUri => symbols[DiskUri] = None \/ scanned = DiskUri
        /\ Told /\ disk = None =>
             (facts = Nobody \/ facts.uri = spelling) /\ (spelling # DiskUri => symbols[DiskUri] = None)
    BY <1>4, <1>9, <1>11, Zenon DEF Filed, OpenFiled, ClosedFiled, OtherPlans, DropPlans
  <2> QED BY <1>1, <1>2, <2>1, Zenon DEF ClosedFiled, WillFile, DropPlans, OtherPlans, FilingPlans, ClosePlans
<1>12. Filed("close", x, q, y)'
  BY <1>5, <1>10, <1>11 DEF Filed
<1> QED BY <1>1, <1>2, <1>7, <1>8, <1>9, <1>12, Plan, Zenon

(* didChange: an accepted change is filed, a refused one forgets the file.  *)
LEMMA ChangeIndex ==
  ASSUME DocInv, IndexInv, didChange
  PROVE  IndexInv'
<1>1. Handling("change") /\ UNCHANGED <<spelling, client, disk, scanned, symbols, facts, byURI, raced, skipped>>
  BY Zenon DEF didChange, editor, index
<1>2. DiskInv' /\ FiledInv /\ Head(inbox) = inbox[1]
  BY <1>1, Handled, Zenon
<1>3. PICK q \in Plans : \E x, y :
        /\ \A ops : Do(ops) => work' = [reader |-> ops, scan |-> List(spelling, q, y)]
        /\ Filed("idle", x, q, y)
        /\ q \notin {"idle", "check"} => MidScan
  BY <1>1, Handled, Zenon
<1>4. PICK x, y : /\ \A ops : Do(ops) => work' = [reader |-> ops, scan |-> List(spelling, q, y)]
                  /\ Filed("idle", x, q, y)
  BY <1>3, Zenon
<1>5. doc.open /\ doc.ver < inbox[1].ver /\ inbox[1].ver \in Nat
  BY <1>1, FirstMessage, Zenon
<1>6. doc \in DocSet /\ doc.ver \in Nat
  BY Zenon DEF DocInv, PipeInv, DocSet
<1>7. PICK u : u = Update(doc, Head(inbox))
  OBVIOUS
<1>8. ~(Head(inbox).ver <= doc.ver)
  BY <1>2, <1>5, <1>6
<1>9. doc' = u.doc /\ noticed' = u.refused /\ Do(IF u.refused THEN Forget(spelling) ELSE File(u.doc.text))
  BY <1>7, <1>8, Zenon DEF didChange
<1>10. doc'.open
  <2>1. \/ u.doc = [doc EXCEPT !.desynced = TRUE]
        \/ \E v, t, d : u.doc = [open |-> TRUE, ver |-> v, text |-> t, desynced |-> d]
    BY <1>7, Zenon DEF Update
  <2>2. CASE u.doc = [doc EXCEPT !.desynced = TRUE]
    BY <1>5, <1>6, <1>9, <2>2 DEF DocSet
  <2>3. CASE \E v, t, d : u.doc = [open |-> TRUE, ver |-> v, text |-> t, desynced |-> d]
    <3>1. doc' = u.doc
      BY <1>9, Zenon
    <3> QED BY <2>3, <3>1
  <2> QED BY <2>1, <2>2, <2>3, Zenon
<1>11. noticed' = doc'.desynced /\ doc' \in DocSet
  BY ChangeInv, Zenon DEF DocInv, ShownIsHeld, PipeInv
<1>12. FiledInv'
  BY <1>1, <1>2, Zenon DEF FiledInv
<1>13. "drop" \in Plans /\ "take" \in Plans /\ q \in ScanPlans /\ (~raced => q \in {"idle", "check"})
  BY <1>4, <1>5, Zenon DEF Plans, OpenPlans, DropPlans, Filed, ScanInv
<1>14. ScanInv(q, y)'
  BY <1>1, <1>13 DEF ScanInv
<1>15. ASSUME ~raced
       PROVE  /\ facts = Nobody \/ facts.uri = spelling
              /\ spelling # DiskUri => symbols[DiskUri] = None
  BY <1>4, <1>5, <1>15, Zenon DEF Filed, OpenFiled, DropPlans
<1>16. CASE doc'.desynced
  <2>1. Do(Forget(spelling))
    BY <1>9, <1>11, <1>16, Zenon
  <2>2. Forget(spelling) = List(spelling, "drop", x)
    BY DropLists, Zenon DEF Forget
  <2>3. work' = [reader |-> List(spelling, "drop", x), scan |-> List(spelling, q, y)]
    BY <1>4, <2>1, <2>2, Zenon
  <2>4. ReaderInv("drop", x)'
    BY <1>10, <1>16 DEF ReaderInv, OtherPlans, DropPlans
  <2>5. ASSUME ~raced PROVE OpenFiled("drop")'
    BY <1>1, <1>15, <2>5, Zenon DEF OpenFiled, DropPlans
  <2>6. Filed("drop", x, q, y)'
    BY <1>1, <1>10, <1>14, <2>4, <2>5 DEF Filed
  <2> QED BY <1>1, <1>2, <1>12, <1>13, <2>3, <2>6, Plan, Zenon
<1>17. CASE ~doc'.desynced
  <2>0. PICK t : t = u.doc.text
    OBVIOUS
  <2>1. Do(File(t)) /\ doc'.text = t
    BY <1>9, <1>11, <1>17, <2>0, Zenon
  <2>2. File(t) = List(spelling, "take", t)
    BY OpenLists, Zenon DEF File
  <2>3. work' = [reader |-> List(spelling, "take", t), scan |-> List(spelling, q, y)]
    BY <1>4, <2>1, <2>2, Zenon
  <2>4. ReaderInv("take", t)'
    BY <1>10, <1>17, <2>1, Zenon DEF ReaderInv, OtherPlans, OpenPlans
  <2>5. ASSUME ~raced PROVE OpenFiled("take")'
    BY <1>1, <1>15, <2>5, Zenon DEF OpenFiled, DropPlans
  <2>6. Filed("take", t, q, y)'
    BY <1>1, <1>10, <1>14, <2>4, <2>5 DEF Filed
  <2> QED BY <1>1, <1>2, <1>12, <1>13, <2>3, <2>6, Plan, Zenon
<1> QED BY <1>16, <1>17

(* A watched file was written.                                              *)
LEMMA WrittenIndex ==
  ASSUME DocInv, IndexInv, fileWritten
  PROVE  IndexInv'
<1>1. /\ Handling("written") /\ UNCHANGED <<spelling, client, disk, doc, scanned, symbols, facts, byURI>>
      /\ Do(IF doc.open THEN <<>> ELSE <<fromDisk(FALSE)>>) /\ Decides(~doc.open) /\ Attempts(~doc.open)
  BY DEF fileWritten, editor, index, store
<1>2. DiskInv' /\ FiledInv /\ (Told' => disk # None)
  BY <1>1, Handled, Zenon
<1>3. PICK q \in Plans : \E x, y :
        /\ \A ops : Do(ops) => work' = [reader |-> ops, scan |-> List(spelling, q, y)]
        /\ Filed("idle", x, q, y)
        /\ q \notin {"idle", "check"} => MidScan
  BY <1>1, Handled, Zenon
<1>4. PICK x, y : /\ \A ops : Do(ops) => work' = [reader |-> ops, scan |-> List(spelling, q, y)]
                  /\ Filed("idle", x, q, y)
                  /\ q \notin {"idle", "check"} => MidScan
  BY <1>3, Zenon
<1>5. FiledInv'
  BY <1>1, <1>2, Zenon DEF FiledInv
<1>6. "check" \in Plans /\ "idle" \in Plans /\ q \in ScanPlans /\ (~raced' => ~raced /\ q \in {"idle", "check"})
  BY <1>1, <1>4, Zenon DEF Plans, ScanPlans, Filed, ScanInv, Decides
<1>7. ScanInv(q, y)'
  BY <1>6 DEF ScanInv
<1>8. CASE doc.open
  <2>1. work' = [reader |-> List(spelling, "idle", x), scan |-> List(spelling, q, y)]
    <3>1. List(spelling, "idle", x) = <<>>
      BY ScanLists, Zenon
    <3> QED BY <1>1, <1>4, <1>8, <3>1, Zenon
  <2>2. ReaderInv("idle", x)'
    BY <1>1, <1>8, Zenon DEF ReaderInv, OtherPlans
  <2>3. ASSUME ~raced' PROVE OpenFiled("idle")'
    BY <1>1, <1>4, <1>6, <1>8, <2>3, Zenon DEF Filed, OpenFiled, Wanted
  <2>4. Filed("idle", x, q, y)'
    BY <1>1, <1>7, <1>8, <2>2, <2>3 DEF Filed
  <2> QED BY <1>1, <1>2, <1>5, <1>6, <2>1, <2>4, Plan, Zenon
<1>9. CASE ~doc.open
  <2>1. work' = [reader |-> List(spelling, "check", x), scan |-> List(spelling, q, y)]
    <3>1. List(spelling, "check", x) = <<fromDisk(FALSE)>>
      <4>1. List(spelling, "check", x) = <<Op("check", DiskUri, None)>>
        BY ScanLists, Zenon
      <4> QED BY <4>1, Zenon DEF fromDisk
    <3> QED BY <1>1, <1>4, <1>9, <3>1, Zenon
  <2>2. ReaderInv("check", x)'
    BY <1>1, <1>2, <1>9, Zenon DEF ReaderInv, OtherPlans, OpenPlans, DropPlans, FilingPlans, Plans, ScanPlans
  <2>3. ASSUME ~raced' PROVE ClosedFiled("check", q)'
    BY <1>1, <1>2, <1>4, <1>6, <1>9, <2>3, Zenon
    DEF Filed, ClosedFiled, WillFile, OtherPlans, DropPlans, FilingPlans, ClosePlans
  <2>4. Filed("check", x, q, y)'
    BY <1>1, <1>7, <1>9, <2>2, <2>3, Zenon DEF Filed
  <2> QED BY <1>1, <1>2, <1>5, <1>6, <2>1, <2>4, Plan, Zenon
<1> QED BY <1>8, <1>9

(* A watched file was deleted.                                              *)
LEMMA DeletedIndex ==
  ASSUME DocInv, IndexInv, forgetDeletedFile
  PROVE  IndexInv'
<1> DEFINE also == IF scanned \in {"", spelling} THEN <<>> ELSE Forget(scanned)
<1>1. /\ Handling("deleted") /\ UNCHANGED <<spelling, client, disk, doc, symbols, facts, byURI, skipped>>
      /\ scanned' = "" /\ Do(IF doc.open THEN <<>> ELSE Forget(spelling) \o also) /\ Decides(~doc.open)
  BY Zenon DEF forgetDeletedFile, editor, store
<1>2. DiskInv' /\ FiledInv /\ (Told' => disk = None)
  BY <1>1, Handled, Zenon
<1>3. PICK q \in Plans : \E x, y :
        /\ \A ops : Do(ops) => work' = [reader |-> ops, scan |-> List(spelling, q, y)]
        /\ Filed("idle", x, q, y)
        /\ q \notin {"idle", "check"} => MidScan
  BY <1>1, Handled, Zenon
<1>4. PICK x, y : /\ \A ops : Do(ops) => work' = [reader |-> ops, scan |-> List(spelling, q, y)]
                  /\ Filed("idle", x, q, y)
                  /\ q \notin {"idle", "check"} => MidScan
  BY <1>3, Zenon
<1>5. FiledInv'
  BY <1>1, <1>2, Zenon DEF FiledInv
<1>6. /\ {"idle", "drop", "both"} \subseteq Plans /\ q \in ScanPlans
      /\ ~raced' => ~raced /\ (~doc.open => q \in {"idle", "check"})
  BY <1>1, <1>4, Zenon DEF Plans, ScanPlans, DropPlans, OtherPlans, Filed, ScanInv, Decides
<1>7. ScanInv(q, y)'
  BY <1>1, <1>4, <1>6, Zenon DEF Filed, ScanInv
<1>8. CASE doc.open
  <2>1. work' = [reader |-> List(spelling, "idle", x), scan |-> List(spelling, q, y)]
    <3>1. List(spelling, "idle", x) = <<>>
      BY ScanLists, Zenon
    <3> QED BY <1>1, <1>4, <1>8, <3>1, Zenon
  <2>2. ReaderInv("idle", x)'
    BY <1>1, <1>8, Zenon DEF ReaderInv, OtherPlans
  <2>3. ASSUME ~raced' PROVE OpenFiled("idle")'
    BY <1>1, <1>4, <1>6, <1>8, <2>3, Zenon DEF Filed, OpenFiled, Wanted
  <2>4. Filed("idle", x, q, y)'
    BY <1>1, <1>7, <1>8, <2>2, <2>3, Zenon DEF Filed
  <2> QED BY <1>1, <1>2, <1>5, <1>6, <2>1, <2>4, Plan, Zenon
<1>9. CASE ~doc.open /\ scanned \in {"", spelling}
  <2>1. work' = [reader |-> List(spelling, "drop", x), scan |-> List(spelling, q, y)]
    <3>1. Forget(spelling) \o <<>> = Forget(spelling)
      BY Joins DEF Forget
    <3>2. Forget(spelling) = List(spelling, "drop", x)
      BY DropLists, Zenon DEF Forget
    <3>3. Do(List(spelling, "drop", x))
      BY <1>1, <1>9, <3>1, <3>2, Zenon
    <3> QED BY <1>4, <3>3, Zenon
  <2>2. ReaderInv("drop", x)'
    BY <1>1, <1>2, <1>9, Zenon DEF ReaderInv, OtherPlans, OpenPlans, DropPlans, FilingPlans, Plans
  <2>3. ASSUME ~raced' PROVE ClosedFiled("drop", q)'
    BY <1>1, <1>2, <1>4, <1>6, <1>9, <2>3, Zenon
    DEF FiledInv, Filed, ClosedFiled, WillFile, OtherPlans, DropPlans, FilingPlans, DiskUri
  <2>4. Filed("drop", x, q, y)'
    BY <1>1, <1>7, <1>9, <2>2, <2>3, Zenon DEF Filed
  <2> QED BY <1>1, <1>2, <1>5, <1>6, <2>1, <2>4, Plan, Zenon
<1>10. CASE ~doc.open /\ scanned \notin {"", spelling}
  <2>0. scanned = DiskUri /\ spelling # DiskUri
    BY <1>2, <1>10, Zenon DEF FiledInv
  <2>1. work' = [reader |-> List(spelling, "both", x), scan |-> List(spelling, q, y)]
    <3>1. \A a, b, c, d : <<a, b>> \o <<c, d>> = <<a, b, c, d>>
      BY JoinPairs, Zenon
    <3>2. List(spelling, "both", x) = <<Op("unsymbol", spelling, None), Op("unsema", spelling, None),
                                        Op("unsymbol", DiskUri, None), Op("unsema", DiskUri, None)>>
      BY OtherLists, Zenon
    <3>3. Forget(spelling) \o Forget(DiskUri) = List(spelling, "both", x)
      BY <3>1, <3>2, Zenon DEF Forget
    <3>4. Do(List(spelling, "both", x))
      BY <1>1, <1>10, <2>0, <3>3, Zenon
    <3> QED BY <1>4, <3>4, Zenon
  <2>2. ReaderInv("both", x)'
    BY <1>1, <1>2, <1>10, <2>0, Zenon DEF ReaderInv, OtherPlans, OpenPlans, DropPlans, FilingPlans, Plans
  <2>3. ASSUME ~raced' PROVE ClosedFiled("both", q)'
    BY <1>1, <1>2, <1>4, <1>6, <1>10, <2>0, <2>3, Zenon
    DEF FiledInv, Filed, ClosedFiled, WillFile, OtherPlans, DropPlans, FilingPlans
  <2>4. Filed("both", x, q, y)'
    BY <1>1, <1>7, <1>10, <2>2, <2>3, Zenon DEF Filed
  <2> QED BY <1>1, <1>2, <1>5, <1>6, <2>1, <2>4, Plan, Zenon
<1> QED BY <1>8, <1>9, <1>10, Zenon

(* An index operation of either goroutine.                                  *)
LEMMA OpIndex ==
  ASSUME DocInv, IndexInv, NEW g \in {"reader", "scan"}, IndexOp(g)
  PROVE  IndexInv'
<1>1. PICK p \in Plans, q \in Plans : \E x, y :
        /\ work = [reader |-> List(spelling, p, x), scan |-> List(spelling, q, y)]
        /\ Filed(p, x, q, y)
  BY Zenon DEF IndexInv
<1>2. PICK x, y : /\ work = [reader |-> List(spelling, p, x), scan |-> List(spelling, q, y)]
                  /\ Filed(p, x, q, y)
  BY <1>1, Zenon
<1>3. work.reader = List(spelling, p, x) /\ work.scan = List(spelling, q, y)
  BY <1>2
<1>4. FiledInv /\ disk \in Nat \cup {None} /\ DiskInv
  BY Zenon DEF IndexInv, DiskInv
<1>5. Quiet => spelling' = spelling /\ DiskInv'
  BY <1>4, Zenon DEF Quiet, editor, DiskInv
<1>6. CASE g = "reader"
  <2>1. work["reader"] = List(spelling, p, x) /\ IndexOp("reader")
    BY <1>3, <1>6, Zenon
  <2>2. /\ Quiet
        /\ \E p2 \in Plans : \E x2 : Moves(p, x, p2, x2) /\ work' = [work EXCEPT !["reader"] = List(spelling, p2, x2)]
    BY <1>4, <2>1, Moved
  <2>3. PICK p2 \in Plans : \E x2 : Moves(p, x, p2, x2) /\ work' = [work EXCEPT !["reader"] = List(spelling, p2, x2)]
    BY <2>2, Zenon
  <2>4. PICK x2 : Moves(p, x, p2, x2) /\ work' = [work EXCEPT !["reader"] = List(spelling, p2, x2)]
    BY <2>3, Zenon
  <2>5. work' = [reader |-> List(spelling, p2, x2), scan |-> List(spelling, q, y)]
    BY <1>2, <2>4, Zenon
  <2>6. FiledInv' /\ Filed(p2, x2, q, y)'
    BY <1>2, <1>4, <2>2, <2>4, ReaderMoves, Zenon
  <2> QED BY <1>5, <2>2, <2>5, <2>6, Plan, Zenon
<1>7. CASE g = "scan"
  <2>1. work["scan"] = List(spelling, q, y) /\ IndexOp("scan")
    BY <1>3, <1>7, Zenon
  <2>2. /\ Quiet
        /\ \E q2 \in Plans : \E y2 : Moves(q, y, q2, y2) /\ work' = [work EXCEPT !["scan"] = List(spelling, q2, y2)]
    BY <1>4, <2>1, Moved
  <2>3. PICK q2 \in Plans : \E y2 : Moves(q, y, q2, y2) /\ work' = [work EXCEPT !["scan"] = List(spelling, q2, y2)]
    BY <2>2, Zenon
  <2>4. PICK y2 : Moves(q, y, q2, y2) /\ work' = [work EXCEPT !["scan"] = List(spelling, q2, y2)]
    BY <2>3, Zenon
  <2>5. work' = [reader |-> List(spelling, p, x), scan |-> List(spelling, q2, y2)]
    BY <1>2, <2>4, Zenon
  <2>6. FiledInv' /\ Filed(p, x, q2, y2)'
    BY <1>2, <1>4, <2>2, <2>4, ScanMoves, Zenon
  <2> QED BY <1>5, <2>2, <2>5, <2>6, Plan, Zenon
<1> QED BY <1>6, <1>7

(* Every step keeps the invariant of the indexes.                           *)
LEMMA IndexNext ==
  ASSUME DocInv, IndexInv, [Next]_(vars)
  PROVE  IndexInv'
<1>1. ASSUME UNCHANGED <<spelling, client, disk, inbox, doc, scanned, symbols, facts, byURI, work, raced, skipped>>
      PROVE  IndexInv'
  <2>1. DiskInv
    BY DEF IndexInv
  <2>2. DiskInv' /\ Told' = Told
    BY <1>1, <2>1, Zenon DEF DiskInv, Told
  <2> QED BY <1>1, <2>2, Frame
<1>2. CASE UNCHANGED vars
  BY <1>1, <1>2, Zenon DEF vars, store, editor, index
<1>3. CASE republishAllDiagnostics
  BY <1>1, <1>3, Zenon DEF republishAllDiagnostics, editor, index
<1>4. CASE Client
  BY <1>4, ClientIndex
<1>5. CASE Handler
  BY <1>3, <1>5, OpenIndex, ChangeIndex, CloseIndex, WrittenIndex, DeletedIndex DEF Handler
<1>6. CASE \E g \in {"reader", "scan"} : IndexOp(g)
  BY <1>6, OpIndex
<1> QED BY <1>2, <1>4, <1>5, <1>6 DEF Next

(* At the start the scan has its check of the file before it.               *)
LEMMA IndexStarts ==
  ASSUME Init
  PROVE  IndexInv
<1>1. /\ spelling \in Uris /\ client = [open |-> FALSE, ver |-> 0, text |-> None]
      /\ disk \in {None, 0} /\ inbox = <<>> /\ doc = NoDoc
      /\ scanned = "" /\ symbols = [u \in Uris |-> None] /\ facts = Nobody /\ byURI = {}
      /\ work = [reader |-> <<>>, scan |-> <<fromDisk(FALSE)>>] /\ raced = FALSE /\ skipped = FALSE
  BY Zenon DEF Init
<1>2. Len(inbox) = 0 /\ client.open = FALSE /\ doc.open = FALSE
  BY <1>1, Zenon DEF NoDoc
<1>3. DiskInv
  <2>1. \A i \in 1..Len(inbox) : FALSE
    BY <1>2
  <2>2. disk \in Nat \cup {None}
    <3>1. disk = None \/ disk = 0
      BY <1>1, Zenon
    <3> QED BY <3>1
  <2> QED BY <1>2, <2>1, <2>2, Zenon DEF DiskInv
<1>4. FiledInv
  BY <1>1, Zenon DEF FiledInv, Uris
<1>5. "idle" \in Plans /\ "check" \in Plans
  BY DEF Plans, ScanPlans
<1>6. List(spelling, "idle", None) = <<>> /\ List(spelling, "check", None) = <<Op("check", DiskUri, None)>>
  BY ScanLists, Zenon
<1>7. work = [reader |-> List(spelling, "idle", None), scan |-> List(spelling, "check", None)]
  BY <1>1, <1>6, Zenon DEF fromDisk
<1>8. ScanInv("check", None) /\ ReaderInv("idle", None)
  BY <1>2, Zenon DEF ScanInv, ReaderInv, ScanPlans, FilingPlans, OpenPlans, OtherPlans, DropPlans, Plans
<1>9. ClosedFiled("idle", "check")
  <2>1. symbols["scan"] = None /\ symbols["editor"] = None /\ symbols[spelling] = None
    BY <1>1, Zenon DEF Uris, DiskUri
  <2>2. "check" \in WillFile \ {"put"}
    BY DEF WillFile
  <2>3. facts.uri # spelling
    BY <1>1, Zenon DEF Nobody, Uris, DiskUri
  <2> QED BY <1>1, <2>1, <2>2, <2>3, Zenon DEF ClosedFiled, DiskUri
<1>10. Filed("idle", None, "check", None)
  BY <1>2, <1>8, <1>9 DEF Filed
<1> QED BY <1>3, <1>4, <1>5, <1>7, <1>10, Zenon DEF IndexInv

(* What is filed in the indexes, and what the goroutines are still to file  *)
(* or to forget, add up to the editor's text of an open document and to the *)
(* disk's text otherwise.                                                   *)
THEOREM IndexInvariance == Spec => []IndexInv
<1>1. Init => IndexInv
  BY IndexStarts
<1>2. DocInv /\ IndexInv /\ [Next]_vars => IndexInv'
  BY IndexNext
<1> QED BY <1>1, <1>2, DocInvariance, PTL DEF Spec

(* If no notification about the file was handled in the middle of its scan, *)
(* the indexes hold the editor's text of an open document, nothing of one   *)
(* that is out of step, nothing of a file that is gone and otherwise the    *)
(* disk's text, filed once, whenever both goroutines are done and no read   *)
(* of the file was skipped; and skipped or not, nothing a closed buffer     *)
(* filed under its own spelling: for every number of texts and any length   *)
(* of the pipe.                                                             *)
THEOREM IndexesFollow == Spec => []IndexFollows
<1>1. ASSUME DocInv, IndexInv PROVE IndexFollows
  <2>1. PICK p \in Plans, q \in Plans : \E x, y :
          /\ work = [reader |-> List(spelling, p, x), scan |-> List(spelling, q, y)]
          /\ Filed(p, x, q, y)
    BY <1>1, Zenon DEF IndexInv
  <2>2. PICK x, y : /\ work = [reader |-> List(spelling, p, x), scan |-> List(spelling, q, y)]
                    /\ Filed(p, x, q, y)
    BY <2>1, Zenon
  <2> SUFFICES ASSUME ~raced, work.reader = <<>>, work.scan = <<>>
               PROVE  IF doc.open THEN Holds(spelling, Wanted)
                      ELSE /\ BufferForgotten
                           /\ inbox = <<>> => Holds(DiskUri, disk) \/ (skipped /\ disk # None)
    BY Zenon DEF IndexFollows, Wanted
  <2>3. p = "idle" /\ q = "idle"
    BY <2>2, NoneBefore, Zenon
  <2>4. FiledInv
    BY <1>1 DEF IndexInv
  <2>5. CASE doc.open
    <3>1. OpenFiled("idle")
      BY <2>2, <2>3, <2>5, Zenon DEF Filed
    <3>2. /\ facts.text = Wanted /\ symbols[spelling] = Wanted
          /\ \A u \in Uris : u # spelling => symbols[u] = None
      BY <2>4, <3>1, Zenon DEF OpenFiled, FiledInv, Uris, DiskUri
    <3>3. symbols = [u \in Uris |-> IF u = spelling THEN Wanted ELSE None]
      BY <2>4, <3>2, Zenon DEF FiledInv
    <3> QED BY <2>5, <3>2, <3>3, Zenon DEF Holds
  <2>6. CASE ~doc.open
    <3>1. ClosedFiled("idle", "idle")
      BY <2>2, <2>3, <2>6, Zenon DEF Filed
    <3>0. BufferForgotten
      BY <3>1, Zenon DEF ClosedFiled, BufferForgotten, ClosePlans, DropPlans, FilingPlans
    <3> SUFFICES ASSUME inbox = <<>>, ~(skipped /\ disk # None) PROVE Holds(DiskUri, disk)
      BY <2>6, <3>0, Zenon
    <3>2. Told
      BY DEF Told
    <3>3. facts.text = disk /\ symbols[DiskUri] = disk
      <4>1. "idle" \notin WillFile \cup OtherPlans \cup DropPlans \cup {"both", "rest", "dropDisk", "close", "recheck", "drop"}
        BY DEF WillFile, FilingPlans, OtherPlans, DropPlans
      <4>2. Nobody.text = None
        BY Zenon DEF Nobody
      <4>3. CASE disk # None
        BY <3>1, <3>2, <4>1, <4>3, Zenon DEF ClosedFiled
      <4>4. CASE disk = None
        BY <3>1, <3>2, <4>1, <4>2, <4>4, Zenon DEF ClosedFiled
      <4> QED BY <4>3, <4>4, Zenon
    <3>4. \A u \in Uris : u # DiskUri => symbols[u] = None
      BY <2>4, <3>1, Zenon DEF ClosedFiled, FiledInv, Uris, DiskUri
    <3>5. symbols = [u \in Uris |-> IF u = DiskUri THEN disk ELSE None]
      BY <2>4, <3>3, <3>4, Zenon DEF FiledInv
    <3> QED BY <3>3, <3>5, Zenon DEF Holds
  <2> QED BY <2>5, <2>6, Zenon
<1> QED BY <1>1, DocInvariance, IndexInvariance, PTL
=============================================================================
