----------------------------- MODULE LogFollowProofs ---------------------------
(***************************************************************************)
(* Proofs about the handlers that stream log lines, for any number of      *)
(* readers, lines and statuses and any page size.                          *)
(*                                                                         *)
(* A reader of pages ends only after an empty page.  The argument is that  *)
(* an empty page means that there was nothing after the last line sent: a  *)
(* page has room for a line, so that it is empty only if the TDS has none  *)
(* from rindex on.                                                         *)
(***************************************************************************)
EXTENDS LogFollow, TLAPS

(* The readers that read page after page. *)
Pages(r) == kind[r] \in {"follow", "logs"}

(* A reader that has not begun has sent nothing. *)
IdleIsNew == \A r \in Reader : pc[r] = "idle" => sent[r] = <<>>

(* Where such a reader is in the log. *)
PageInv == \A r \in Reader : Pages(r) =>
    /\ from[r] = 1
    /\ pos[r] <= log + 1 /\ asked[r] <= log
    /\ pc[r] = "recv" =>
         /\ last[r] <= asked[r] /\ pos[r] <= asked[r] + 1
         /\ ~fresh[r] => last[r] = asked[r] \/ pos[r] <= last[r]
    /\ pc[r] \in {"check", "ok"} => pos[r] = asked[r] + 1

IInv == TypeOK /\ IdleIsNew /\ NoGaps /\ PageInv

(* Appending the next number to a run of numbers. *)
LEMMA AppendRun ==
    ASSUME NEW S, NEW s \in Seq(S), NEW f \in Nat, NEW x \in S, x = f + Len(s), x \in Nat,
           s = [i \in 1 .. Len(s) |-> f + i - 1]
    PROVE  /\ Append(s, x) \in Seq(S) /\ Len(Append(s, x)) = Len(s) + 1
           /\ Append(s, x) = [i \in 1 .. Len(s) + 1 |-> f + i - 1]
<1> DEFINE t == Append(s, x)
<1>1. t \in Seq(S) /\ Len(t) = Len(s) + 1 /\ Len(s) \in Nat
    OBVIOUS
<1>2. DOMAIN t = 1 .. Len(s) + 1
    BY <1>1
<1>3. \A i \in 1 .. Len(s) + 1 : t[i] = f + i - 1
    <2> TAKE i \in 1 .. Len(s) + 1
    <2>1. CASE i <= Len(s)
        <3>1. t[i] = s[i]
            BY <2>1, <1>1
        <3> QED BY <3>1, <2>1, <1>1
    <2>2. CASE i = Len(s) + 1
        BY <2>2, <1>1
    <2> QED BY <2>1, <2>2, <1>1
<1>4. t = [i \in DOMAIN t |-> t[i]]
    BY <1>1
<1> QED BY <1>1, <1>2, <1>3, <1>4

LEMMA InitIInv == Init => IInv
BY LogFollowAssumption DEF Init, IInv, TypeOK, IdleIsNew, NoGaps, PageInv, Pages, Done

LEMMA NextIInv == IInv /\ [Next]_vars => IInv'
<1> SUFFICES ASSUME IInv, [Next]_vars PROVE IInv'
    OBVIOUS
<1> USE LogFollowAssumption DEF IInv, IdleIsNew, NoGaps, PageInv, Pages, jobVars, readVars, Goto
<1>1. CASE StatusChanges
    BY <1>1 DEF StatusChanges, TypeOK
<1>2. CASE LineArrives
    BY <1>2 DEF LineArrives, TypeOK
<1>3. ASSUME NEW r \in Reader, Begin(r) PROVE IInv'
    <2>1. PICK p \in 1 .. MaxLines :
            /\ kind[r] \in {"follow", "logs"} => p = 1
            /\ from' = [from EXCEPT ![r] = p]
            /\ pos' = [pos EXCEPT ![r] = p]
        BY <1>3 DEF Begin
    <2>2. TypeOK' /\ IdleIsNew' /\ PageInv'
        BY <1>3, <2>1 DEF Begin, TypeOK
    <2>3. NoGaps'
        <3> SUFFICES ASSUME NEW z \in Reader
                     PROVE  /\ sent'[z] = [i \in 1 .. Len(sent'[z]) |-> from'[z] + i - 1]
                            /\ from'[z] + Len(sent'[z]) = pos'[z]
            OBVIOUS
        <3>1. CASE z = r
            <4>1. sent'[z] = <<>> /\ from'[z] = p /\ pos'[z] = p
                BY <1>3, <2>1, <3>1 DEF Begin, TypeOK
            <4> HIDE DEF IInv
            <4> QED BY <4>1
        <3>2. CASE z # r
            BY <1>3, <2>1, <3>2 DEF Begin, TypeOK
        <3> QED BY <3>1, <3>2
    <2> QED BY <2>2, <2>3
<1>4. ASSUME NEW r \in Reader, Wait(r) PROVE IInv'
    BY <1>4 DEF Wait, TypeOK, Done
<1>5. ASSUME NEW r \in Reader, Connect(r) PROVE IInv'
    BY <1>5 DEF Connect, TypeOK, Done
<1>6. ASSUME NEW r \in Reader, Deadline(r) PROVE IInv'
    BY <1>6 DEF Deadline, TypeOK
<1>7. ASSUME NEW r \in Reader, Query(r) PROVE IInv'
    <2>1. /\ pos[r] \in Nat /\ log \in Nat /\ last'[r] \in Nat
          /\ last'[r] = log \/ pos[r] <= last'[r]
          /\ last'[r] <= log
        BY <1>7 DEF Query, TypeOK
    <2>2. TypeOK'
        BY <1>7, <2>1 DEF Query, TypeOK
    <2>3. IdleIsNew' /\ NoGaps'
        BY <1>7 DEF Query, TypeOK
    <2>4. PageInv'
        <3> SUFFICES ASSUME NEW z \in Reader, Pages(z)'
                     PROVE  /\ from'[z] = 1
                            /\ pos'[z] <= log' + 1 /\ asked'[z] <= log'
                            /\ pc'[z] = "recv" =>
                                 /\ last'[z] <= asked'[z] /\ pos'[z] <= asked'[z] + 1
                                 /\ ~fresh'[z] => last'[z] = asked'[z] \/ pos'[z] <= last'[z]
                            /\ pc'[z] \in {"check", "ok"} => pos'[z] = asked'[z] + 1
            OBVIOUS
        <3>1. CASE z = r
            <4>1. pc'[r] = "recv" /\ asked'[r] = log /\ log' = log /\ pos'[r] = pos[r]
                BY <1>7 DEF Query, TypeOK
            <4>2. from'[r] = 1 /\ pos[r] <= log + 1
                BY <1>7, <3>1 DEF Query, TypeOK
            <4> HIDE DEF IInv
            <4> QED BY <2>1, <3>1, <4>1, <4>2
        <3>2. CASE z # r
            BY <1>7, <3>2 DEF Query, TypeOK
        <3> QED BY <3>1, <3>2
    <2> QED BY <2>2, <2>3, <2>4
<1>8. ASSUME NEW r \in Reader, QueryFails(r) PROVE IInv'
    BY <1>8 DEF QueryFails, TypeOK, Done
<1>9. ASSUME NEW r \in Reader, RecvLine(r) PROVE IInv'
    <2>1. /\ sent[r] \in Seq(1 .. MaxLines) /\ from[r] \in Nat /\ pos[r] \in 1 .. MaxLines
          /\ pos[r] = from[r] + Len(sent[r]) /\ Len(sent[r]) \in Nat
        BY <1>9 DEF RecvLine, TypeOK
    <2>2. /\ sent'[r] \in Seq(1 .. MaxLines)
          /\ sent'[r] = [i \in 1 .. Len(sent'[r]) |-> from[r] + i - 1]
          /\ Len(sent'[r]) = Len(sent[r]) + 1
        <3>1. sent'[r] = Append(sent[r], pos[r])
            BY <1>9 DEF RecvLine, TypeOK
        <3> HIDE DEF IInv
        <3>2. sent[r] = [i \in 1 .. Len(sent[r]) |-> from[r] + i - 1]
            BY DEF IInv
        <3> QED BY <3>1, <3>2, <2>1, AppendRun
    <2>3. TypeOK'
        BY <1>9, <2>1, <2>2 DEF RecvLine, TypeOK
    <2>4. IdleIsNew'
        BY <1>9 DEF RecvLine, TypeOK
    <2>5. PageInv'
        <3> SUFFICES ASSUME NEW z \in Reader, Pages(z)'
                     PROVE  /\ from'[z] = 1
                            /\ pos'[z] <= log' + 1 /\ asked'[z] <= log'
                            /\ pc'[z] = "recv" =>
                                 /\ last'[z] <= asked'[z] /\ pos'[z] <= asked'[z] + 1
                                 /\ ~fresh'[z] => last'[z] = asked'[z] \/ pos'[z] <= last'[z]
                            /\ pc'[z] \in {"check", "ok"} => pos'[z] = asked'[z] + 1
            OBVIOUS
        <3>1. CASE z = r
            <4>1. pos'[r] = pos[r] + 1 /\ fresh'[r] = TRUE /\ pc'[r] = "recv" /\ pc[r] = "recv"
                BY <1>9 DEF RecvLine, TypeOK
            <4>2. pos[r] <= last[r] /\ Pages(r)
                BY <1>9, <3>1 DEF RecvLine
            <4>3. last[r] <= asked[r] /\ asked[r] <= log /\ from[r] = 1
                BY <4>1, <4>2
            <4>4. pos[r] \in Nat /\ last[r] \in Nat /\ asked[r] \in Nat /\ log \in Nat
                BY DEF TypeOK
            <4> QED BY <1>9, <3>1, <4>1, <4>2, <4>3, <4>4 DEF RecvLine
        <3>2. CASE z # r
            BY <1>9, <3>2 DEF RecvLine, TypeOK
        <3> QED BY <3>1, <3>2
    <2>6. NoGaps'
        <3> SUFFICES ASSUME NEW z \in Reader
                     PROVE  /\ sent'[z] = [i \in 1 .. Len(sent'[z]) |-> from'[z] + i - 1]
                            /\ from'[z] + Len(sent'[z]) = pos'[z]
            OBVIOUS
        <3>1. CASE z = r
            <4>1. from' = from /\ pos'[r] = pos[r] + 1
                BY <1>9 DEF RecvLine, TypeOK
            <4>2. from'[r] + Len(sent'[r]) = pos'[r]
                <5> HIDE DEF IInv
                <5>1. Len(sent'[r]) = Len(sent[r]) + 1 /\ from[r] \in Nat
                    BY <2>1, <2>2
                <5> QED BY <2>1, <4>1, <5>1
            <4>3. sent'[r] = [i \in 1 .. Len(sent'[r]) |-> from'[r] + i - 1]
                <5> HIDE DEF IInv
                <5> QED BY <2>2, <4>1
            <4> HIDE DEF IInv
            <4> QED BY <3>1, <4>2, <4>3
        <3>2. CASE z # r
            <4>1. from' = from /\ pos'[z] = pos[z] /\ sent'[z] = sent[z]
                BY <1>9, <3>2 DEF RecvLine, TypeOK
            <4>2. /\ sent[z] = [i \in 1 .. Len(sent[z]) |-> from[z] + i - 1]
                  /\ from[z] + Len(sent[z]) = pos[z]
                OBVIOUS
            <4> HIDE DEF IInv
            <4> QED BY <4>1, <4>2
        <3> QED BY <3>1, <3>2
    <2> QED BY <2>3, <2>4, <2>5, <2>6
<1>10. ASSUME NEW r \in Reader, RecvFails(r) PROVE IInv'
    BY <1>10 DEF RecvFails, TypeOK, Done
<1>11. ASSUME NEW r \in Reader, RecvEOF(r) PROVE IInv'
    <2>1. AfterPage(r) \in {"ok", "query", "check"}
        BY DEF AfterPage
    <2>2. Pages(r) /\ AfterPage(r) \in {"check", "ok"} => ~fresh[r]
        BY DEF AfterPage
    <2>3. Pages(r) /\ ~fresh[r] => pos[r] = asked[r] + 1
        <3>1. pos[r] \in Nat /\ last[r] \in Nat /\ asked[r] \in Nat
            BY DEF TypeOK
        <3>2. pc[r] = "recv" /\ pos[r] > last[r]
            BY <1>11 DEF RecvEOF
        <3> QED BY <3>1, <3>2
    <2> QED BY <1>11, <2>1, <2>2, <2>3 DEF RecvEOF, TypeOK, Done
<1>12. ASSUME NEW r \in Reader, Check(r) PROVE IInv'
    BY <1>12 DEF Check, TypeOK, Done
<1>13. CASE UNCHANGED vars
    BY <1>13 DEF vars, TypeOK
<1> QED
    BY <1>1, <1>2, <1>3, <1>4, <1>5, <1>6, <1>7, <1>8, <1>9, <1>10, <1>11, <1>12, <1>13
    DEF Next, Read

(* What is needed of the readers holds in every run. *)
THEOREM Invariance == Spec => []IInv
BY InitIInv, NextIInv, PTL DEF Spec

(* The readers keep their types: rindex (trainer_impl.go:1670) is at most one *)
(* past the last line, and no query goes beyond it.                           *)
THEOREM TypeCorrect == Spec => []TypeOK
<1>1. IInv => TypeOK
    BY DEF IInv
<1> QED BY Invariance, <1>1, PTL

(* Every reader sends the lines it was asked for in order, each exactly once *)
(* (rindex, trainer_impl.go:1670).                                           *)
THEOREM LinesInOrder == Spec => []NoGaps
<1>1. IInv => NoGaps
    BY DEF IInv
<1> QED BY Invariance, <1>1, PTL

(* GetTrainedModelLogs ends without an error only after the client has all *)
(* the lines there were at its last query (trainer_impl.go:1614).          *)
THEOREM OkIsComplete == Spec => []CompleteWhenOk
<1>1. IInv => CompleteWhenOk
    <2> SUFFICES ASSUME IInv, NEW r \in Reader, pc[r] = "ok", kind[r] \in {"follow", "logs"}
                 PROVE  Len(sent[r]) = asked[r]
        BY DEF CompleteWhenOk
    <2>1. from[r] = 1 /\ pos[r] = asked[r] + 1 /\ from[r] + Len(sent[r]) = pos[r]
        BY DEF IInv, PageInv, Pages, NoGaps
    <2>2. asked[r] \in Nat /\ Len(sent[r]) \in Nat
        BY DEF IInv, TypeOK
    <2> QED BY <2>1, <2>2
<1> QED BY Invariance, <1>1, PTL
================================================================================
