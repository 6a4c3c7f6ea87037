--------------------------- MODULE PipelineProofs ---------------------------
(***************************************************************************)
(* The painting pipelines, for any number of cells, batches, threads and   *)
(* failures.                                                               *)
(*                                                                         *)
(* The stream of cells.  The card never holds more cells than there are    *)
(* permits, and a regular exit of the painter is honest about every line   *)
(* it read: a line is unread, with the producer, in the channel, with the  *)
(* painter or done, and what was printed of it says which; the cells on    *)
(* the card are among those whose holder has a permit; a permit is in its  *)
(* channel, held, or lost with a panic.                                    *)
(*                                                                         *)
(* The batches of one cell, and the airborne worker: the sections below    *)
(* say what accounts for every batch, every permit and every cell.         *)
(***************************************************************************)
EXTENDS MCPipelines, FiniteSetTheorems, SequenceTheorems, TLAPS

Busy == suProducer.pc \in {"prepare", "permit", "upload", "sendPrepared", "sendFailed"}
Painted == suPainter.pc \in {"paint", "done", "fail"}

\* The lines the producer, the channel and the painter have a permit for.
Uploading == {l \in {suProducer.line} : suProducer.pc \in {"upload", "sendPrepared"}}
InChannel == {l \in Lines : suChannel = <<Streamed(l, "prepared")>>}
OnEasel == {l \in {suPainter.line} : Painted}
BeingPainted == {l \in OnEasel : suPainter.pc = "paint"}

Use(S) == IF S = {} THEN 0 ELSE 1

\* A line is in one place, with what was printed of it there.
LinesInPlace ==
    /\ \A l \in suUnread : suPrinted[l] = <<>>
    /\ Busy => suProducer.line \in Lines \ suUnread /\ suPrinted[suProducer.line] = <<>>
    /\ \A l \in Lines, k \in {"prepared", "failed"} : suChannel = <<Streamed(l, k)>> =>
           l \notin suUnread /\ suPrinted[l] = <<>> /\ (Busy => suProducer.line # l)
    /\ Painted => suPainter.line \in Lines \ suUnread /\ suPrinted[suPainter.line] = <<"start">>

\* A cell on the card belongs to a holder of a permit.
CardInPlace == suCard \subseteq Uploading \cup InChannel \cup BeingPainted

\* A permit is in its channel or held; a panic loses it.
PermitsInPlace ==
    suPermits + Use(Uploading) + Use(InChannel) + Use(OnEasel) <= ResidentCells

\* While nobody has panicked, a line without a verdict is still under way.
VerdictsGiven ==
    suProducer.pc # "panicked" /\ suPainter.pc # "panicked" =>
        \A l \in Lines \ suUnread :
            \/ suPrinted[l] \notin {<<>>, <<"start">>}
            \/ Busy /\ suProducer.line = l
            \/ \E k \in {"prepared", "failed"} : suChannel = <<Streamed(l, k)>>
            \/ Painted /\ suPainter.line = l

FailuresCounted ==
    /\ suFailures = 0 => \A l \in Lines : suPrinted[l] \notin {<<"fail">>, <<"start", "fail">>}
    /\ suFaults = 0 => ~suBroke

ExitIsLast ==
    suExit = "status" =>
        suProducer.pc = "ended" /\ suPainter.pc = "receive" /\ suChannel = <<>>

SuInv ==
    /\ SuTypeOK
    /\ LinesInPlace
    /\ CardInPlace
    /\ PermitsInPlace
    /\ VerdictsGiven
    /\ FailuresCounted
    /\ ExitIsLast

-----------------------------------------------------------------------------

\* Three sets of one line at most hold at most the permits they use.
LEMMA HoldersCount ==
    ASSUME NEW A, NEW B, NEW C, NEW S \in SUBSET (A \cup B \cup C),
           A = {} \/ \E x : A = {x}, B = {} \/ \E x : B = {x}, C = {} \/ \E x : C = {x}
    PROVE  Cardinality(S) <= Use(A) + Use(B) + Use(C)
<1>1. \A D : (D = {} \/ \E x : D = {x}) => IsFiniteSet(D) /\ Cardinality(D) = Use(D)
    <2> SUFFICES ASSUME NEW D, D = {} \/ \E x : D = {x}
                 PROVE  IsFiniteSet(D) /\ Cardinality(D) = Use(D)
        OBVIOUS
    <2>1. CASE D = {}
        BY <2>1, FS_EmptySet DEF Use
    <2>2. ASSUME NEW x, D = {x} PROVE IsFiniteSet(D) /\ Cardinality(D) = Use(D)
        <3>1. IsFiniteSet(D) /\ Cardinality(D) = 1
            BY <2>2, FS_Singleton
        <3> QED
            BY <2>2, <3>1 DEF Use
    <2> QED
        BY <2>1, <2>2
<1>2. \A D, F : IsFiniteSet(D) /\ IsFiniteSet(F) =>
          IsFiniteSet(D \cup F) /\ Cardinality(D \cup F) <= Cardinality(D) + Cardinality(F)
    <2> SUFFICES ASSUME NEW D, NEW F, IsFiniteSet(D), IsFiniteSet(F)
                 PROVE  /\ IsFiniteSet(D \cup F)
                        /\ Cardinality(D \cup F) <= Cardinality(D) + Cardinality(F)
        OBVIOUS
    <2>1. IsFiniteSet(D \cap F)
        BY FS_Subset
    <2>2. Cardinality(D) \in Nat /\ Cardinality(F) \in Nat /\ Cardinality(D \cap F) \in Nat
        BY <2>1, FS_CardinalityType
    <2>3. /\ IsFiniteSet(D \cup F)
          /\ Cardinality(D \cup F) = Cardinality(D) + Cardinality(F) - Cardinality(D \cap F)
        BY FS_Union
    <2> QED
        BY <2>2, <2>3
<1>3. IsFiniteSet(A \cup B) /\ Cardinality(A \cup B) <= Use(A) + Use(B)
    BY <1>1, <1>2
<1>4. IsFiniteSet(A \cup B \cup C) /\ Cardinality(A \cup B \cup C) <= Cardinality(A \cup B) + Use(C)
    BY <1>1, <1>2, <1>3
<1>5. Cardinality(S) <= Cardinality(A \cup B \cup C)
    BY <1>4, FS_Subset
<1>6. /\ Cardinality(S) \in Nat /\ Cardinality(A \cup B) \in Nat
      /\ Cardinality(A \cup B \cup C) \in Nat
    BY <1>3, <1>4, FS_Subset, FS_CardinalityType
<1> QED
    BY <1>3, <1>4, <1>5, <1>6 DEF Use

\* The stream begins with nothing under way.
LEMMA SuInitInv == SuInit => SuInv
<1> SUFFICES ASSUME SuInit PROVE SuInv
    OBVIOUS
<1> USE SurfaceAssumption DEF SuInit, Producing, Painting, Streamed, Busy, Painted
<1>1. SuTypeOK
    <2>1. suPrinted \in [Lines -> {<<>>, <<"fail">>, <<"start">>, <<"start", "done">>,
                                    <<"start", "fail">>}]
        OBVIOUS
    <2>2. suPermits \in 0..ResidentCells
        OBVIOUS
    <2>3. suProducer \in [pc : {"read", "prepare", "permit", "upload", "sendPrepared",
                             "sendFailed", "ended", "panicked"}, line : Lines \cup {NoLine}]
        OBVIOUS
    <2>4. suPainter \in [pc : {"receive", "paint", "done", "fail", "panicked"},
                      line : Lines \cup {NoLine}]
        OBVIOUS
    <2> QED
        BY <2>1, <2>2, <2>3, <2>4 DEF SuTypeOK
<1>2. LinesInPlace
    BY DEF LinesInPlace
<1>3. CardInPlace
    BY DEF CardInPlace
<1>4. Uploading = {} /\ InChannel = {} /\ OnEasel = {}
    BY DEF Uploading, InChannel, OnEasel
<1>5. PermitsInPlace
    BY <1>4 DEF PermitsInPlace, Use
<1>6. VerdictsGiven /\ FailuresCounted /\ ExitIsLast
    BY DEF VerdictsGiven, FailuresCounted, ExitIsLast
<1> QED
    BY <1>1, <1>2, <1>3, <1>5, <1>6 DEF SuInv


\* What the painter takes from the channel is a line of which nothing is printed.
LEMMA FailedReceived ==
    ASSUME SuInv, ReceiveFailed
    PROVE  \E l \in Lines \ suUnread :
               /\ suChannel = <<Streamed(l, "failed")>> /\ suChannel' = <<>>
               /\ suPrinted[l] = <<>> /\ suPrinted' = [suPrinted EXCEPT ![l] = <<"fail">>]
               /\ Busy => suProducer.line # l
<1>1. PICK l \in Lines, k \in {"prepared", "failed"} : suChannel = <<Streamed(l, k)>>
    BY DEF SuInv, SuTypeOK, ReceiveFailed
<1>2. Head(suChannel) = Streamed(l, k) /\ Tail(suChannel) = <<>>
    BY <1>1
<1>3. k = "failed" /\ suPrinted' = [suPrinted EXCEPT ![l] = Append(@, "fail")]
    <2>1. Head(suChannel).kind = k /\ Head(suChannel).line = l
        BY <1>2 DEF Streamed
    <2> QED
        BY <2>1 DEF ReceiveFailed, PrintLine
<1>4. suPrinted[l] = <<>> /\ l \notin suUnread /\ (Busy => suProducer.line # l)
    BY <1>1 DEF SuInv, LinesInPlace
<1>5. suPrinted' = [suPrinted EXCEPT ![l] = <<"fail">>]
    BY <1>3, <1>4
<1> QED
    BY <1>1, <1>2, <1>3, <1>4, <1>5 DEF ReceiveFailed

\* Likewise for a cell that arrives prepared, whose start is printed.
LEMMA PreparedReceived ==
    ASSUME SuInv, ReceivePrepared
    PROVE  \E l \in Lines \ suUnread :
               /\ suChannel = <<Streamed(l, "prepared")>> /\ suChannel' = <<>>
               /\ suPrinted[l] = <<>> /\ suPrinted' = [suPrinted EXCEPT ![l] = <<"start">>]
               /\ Busy => suProducer.line # l
               /\ suPainter' = Painting("paint", l)
<1>1. PICK l \in Lines, k \in {"prepared", "failed"} : suChannel = <<Streamed(l, k)>>
    BY DEF SuInv, SuTypeOK, ReceivePrepared
<1>2. Head(suChannel) = Streamed(l, k) /\ Tail(suChannel) = <<>>
    BY <1>1
<1>3. k = "prepared" /\ suPrinted' = [suPrinted EXCEPT ![l] = Append(@, "start")]
    <2>1. Head(suChannel).kind = k /\ Head(suChannel).line = l
        BY <1>2 DEF Streamed
    <2> QED
        BY <2>1 DEF ReceivePrepared, PrintLine
<1>4. suPrinted[l] = <<>> /\ l \notin suUnread /\ (Busy => suProducer.line # l)
    BY <1>1 DEF SuInv, LinesInPlace
<1>5. suPrinted' = [suPrinted EXCEPT ![l] = <<"start">>]
    BY <1>3, <1>4
<1>6. suPainter' = Painting("paint", l)
    BY <1>2 DEF ReceivePrepared, Streamed
<1> QED
    BY <1>1, <1>2, <1>3, <1>4, <1>5, <1>6 DEF ReceivePrepared

\* Append makes a pair of a singleton.
LEMMA AppendIsPair == ASSUME NEW S, NEW v \in S, NEW w \in S PROVE Append(<<v>>, w) = <<v, w>>
<1>1. Len(<<v>>) = 1 /\ <<v>> \in Seq(S) /\ <<v>>[1] = v
    OBVIOUS
<1>2. Len(<<v, w>>) = 2 /\ <<v, w>> \in Seq(S) /\ <<v, w>>[1] = v /\ <<v, w>>[2] = w
    OBVIOUS
<1>3. /\ Append(<<v>>, w) \in Seq(S) /\ Len(Append(<<v>>, w)) = 2
      /\ Append(<<v>>, w)[1] = v /\ Append(<<v>>, w)[2] = w
    BY <1>1, AppendProperties
<1>4. \A i \in 1..2 : Append(<<v>>, w)[i] = <<v, w>>[i]
    BY <1>2, <1>3
<1> QED
    BY <1>2, <1>3, <1>4, SeqEqual

\* A verdict follows the start of its line.
LEMMA Reported ==
    ASSUME SuInv, Report
    PROVE  /\ suPainter.line \in Lines \ suUnread /\ suPrinted[suPainter.line] = <<"start">>
           /\ suPrinted' = [suPrinted EXCEPT ![suPainter.line] = <<"start", suPainter.pc>>]
           /\ suPainter.pc \in {"done", "fail"}
<1>1. suPainter.line \in Lines \ suUnread /\ suPrinted[suPainter.line] = <<"start">>
    BY DEF SuInv, LinesInPlace, Painted, Report
<1>2. suPrinted' = [suPrinted EXCEPT ![suPainter.line] = Append(<<"start">>, suPainter.pc)]
    BY <1>1 DEF Report, PrintLine
<1>3. Append(<<"start">>, suPainter.pc) = <<"start", suPainter.pc>>
    <2>1. suPainter.pc \in {"done", "fail"}
        BY DEF Report
    <2>2. "start" \in {"start", "done", "fail"} /\ suPainter.pc \in {"start", "done", "fail"}
        BY <2>1
    <2> QED
        BY <2>2, AppendIsPair
<1> QED
    BY <1>1, <1>2, <1>3 DEF Report

\* Every step keeps the types; what is printed of a line is where the line is.
LEMMA KeepsTypes == ASSUME SuInv, SuNext PROVE SuTypeOK'
<1> USE SurfaceAssumption DEF SuInv, Producing, Painting, Streamed, Busy, Painted
<1>1. ASSUME NEW l \in Lines, ReadLine(l) PROVE SuTypeOK'
    BY <1>1 DEF ReadLine, SuTypeOK, LinesInPlace
<1>2. CASE ReadEnd
    <2>1. suFaults' \in Nat
        BY <1>2 DEF ReadEnd, SuTypeOK
    <2>2. suBroke' \in BOOLEAN
        BY <1>2 DEF ReadEnd, SuTypeOK
    <2> QED
        BY <1>2, <2>1, <2>2 DEF ReadEnd, SuTypeOK
<1>3. CASE Prepare
    BY <1>3 DEF Prepare, SuTypeOK, LinesInPlace
<1>4. CASE TakePermit
    BY <1>4 DEF TakePermit, SuTypeOK, LinesInPlace
<1>5. CASE Upload
    BY <1>5 DEF Upload, SuTypeOK, LinesInPlace
<1>6. CASE UploadFails
    <2>1. Uploading # {}
        BY <1>6 DEF UploadFails, Uploading
    <2>2. suPermits' \in 0..ResidentCells
        BY <1>6, <2>1 DEF UploadFails, SuTypeOK, PermitsInPlace, Use
    <2> QED
        BY <1>6, <2>2 DEF UploadFails, SuTypeOK
<1>7. CASE UploadPanics
    BY <1>7 DEF UploadPanics, SuTypeOK, LinesInPlace
<1>8. CASE Send("sendPrepared", "prepared")
    BY <1>8 DEF Send, SuTypeOK, LinesInPlace
<1>9. CASE Send("sendFailed", "failed")
    BY <1>9 DEF Send, SuTypeOK, LinesInPlace
<1>10. CASE ReceiveFailed
    <2>1. PICK l \in Lines \ suUnread :
            /\ suChannel = <<Streamed(l, "failed")>> /\ suChannel' = <<>>
            /\ suPrinted[l] = <<>> /\ suPrinted' = [suPrinted EXCEPT ![l] = <<"fail">>]
            /\ Busy => suProducer.line # l
        BY <1>10, FailedReceived
    <2> QED
        BY <1>10, <2>1 DEF ReceiveFailed, SuTypeOK, LinesInPlace
<1>11. CASE ReceivePrepared
    <2>1. PICK l \in Lines \ suUnread :
            /\ suChannel = <<Streamed(l, "prepared")>> /\ suChannel' = <<>>
            /\ suPrinted[l] = <<>> /\ suPrinted' = [suPrinted EXCEPT ![l] = <<"start">>]
            /\ Busy => suProducer.line # l
            /\ suPainter' = Painting("paint", l)
        BY <1>11, PreparedReceived
    <2> QED
        BY <1>11, <2>1 DEF ReceivePrepared, SuTypeOK, LinesInPlace
<1>12. CASE Paint
    BY <1>12 DEF Paint, SuTypeOK, LinesInPlace
<1>13. CASE Report
    <2>1. OnEasel # {}
        BY <1>13 DEF Report, OnEasel
    <2>2. suPermits' \in 0..ResidentCells
        BY <1>13, <2>1 DEF Report, SuTypeOK, PermitsInPlace, Use
    <2>3. <<"start", suPainter.pc>> \in {<<"start", "done">>, <<"start", "fail">>}
        BY <1>13, Reported
    <2>4. suPrinted' \in [Lines -> {<<>>, <<"fail">>, <<"start">>, <<"start", "done">>,
                                     <<"start", "fail">>}]
        BY <1>13, <2>3, Reported DEF SuTypeOK
    <2> QED
        BY <1>13, <2>2, <2>4 DEF Report, SuTypeOK
<1>14. CASE Drain
    BY <1>14 DEF Drain, SuTypeOK, LinesInPlace
<1>15. CASE ScopeUnwinds
    BY <1>15 DEF ScopeUnwinds, SuTypeOK, LinesInPlace
<1> QED
    BY <1>1, <1>2, <1>3, <1>4, <1>5, <1>6, <1>7, <1>8,
       <1>9, <1>10, <1>11, <1>12, <1>13, <1>14, <1>15
    DEF SuNext, SuProducerNext, SuPainterNext

\* Every step keeps each line in one place.
LEMMA KeepsLines == ASSUME SuInv, SuNext PROVE LinesInPlace'
<1> USE SurfaceAssumption DEF SuInv, Producing, Painting, Streamed, Busy, Painted
<1>1. ASSUME NEW l \in Lines, ReadLine(l) PROVE LinesInPlace'
    BY <1>1 DEF ReadLine, SuTypeOK, LinesInPlace
<1>2. CASE ReadEnd
    BY <1>2 DEF ReadEnd, SuTypeOK, LinesInPlace
<1>3. CASE Prepare
    BY <1>3 DEF Prepare, SuTypeOK, LinesInPlace
<1>4. CASE TakePermit
    BY <1>4 DEF TakePermit, SuTypeOK, LinesInPlace
<1>5. CASE Upload
    BY <1>5 DEF Upload, SuTypeOK, LinesInPlace
<1>6. CASE UploadFails
    BY <1>6 DEF UploadFails, SuTypeOK, LinesInPlace
<1>7. CASE UploadPanics
    BY <1>7 DEF UploadPanics, SuTypeOK, LinesInPlace
<1>8. CASE Send("sendPrepared", "prepared")
    BY <1>8 DEF Send, SuTypeOK, LinesInPlace
<1>9. CASE Send("sendFailed", "failed")
    BY <1>9 DEF Send, SuTypeOK, LinesInPlace
<1>10. CASE ReceiveFailed
    <2>1. PICK l \in Lines \ suUnread :
            /\ suChannel = <<Streamed(l, "failed")>> /\ suChannel' = <<>>
            /\ suPrinted[l] = <<>> /\ suPrinted' = [suPrinted EXCEPT ![l] = <<"fail">>]
            /\ Busy => suProducer.line # l
        BY <1>10, FailedReceived
    <2> QED
        BY <1>10, <2>1 DEF ReceiveFailed, SuTypeOK, LinesInPlace
<1>11. CASE ReceivePrepared
    <2>1. PICK l \in Lines \ suUnread :
            /\ suChannel = <<Streamed(l, "prepared")>> /\ suChannel' = <<>>
            /\ suPrinted[l] = <<>> /\ suPrinted' = [suPrinted EXCEPT ![l] = <<"start">>]
            /\ Busy => suProducer.line # l
            /\ suPainter' = Painting("paint", l)
        BY <1>11, PreparedReceived
    <2> QED
        BY <1>11, <2>1 DEF ReceivePrepared, SuTypeOK, LinesInPlace
<1>12. CASE Paint
    BY <1>12 DEF Paint, SuTypeOK, LinesInPlace
<1>13. CASE Report
    BY <1>13, Reported DEF Report, SuTypeOK, LinesInPlace
<1>14. CASE Drain
    BY <1>14 DEF Drain, SuTypeOK, LinesInPlace
<1>15. CASE ScopeUnwinds
    BY <1>15 DEF ScopeUnwinds, SuTypeOK, LinesInPlace
<1> QED
    BY <1>1, <1>2, <1>3, <1>4, <1>5, <1>6, <1>7, <1>8,
       <1>9, <1>10, <1>11, <1>12, <1>13, <1>14, <1>15
    DEF SuNext, SuProducerNext, SuPainterNext

\* Every step keeps the card to cells whose holder has a permit.
LEMMA KeepsCard == ASSUME SuInv, SuNext PROVE CardInPlace'
<1> USE SurfaceAssumption DEF SuInv, Producing, Painting, Streamed, Busy, Painted
<1>1. ASSUME NEW l \in Lines, ReadLine(l) PROVE CardInPlace'
    BY <1>1 DEF ReadLine, SuTypeOK, CardInPlace, Uploading, InChannel, OnEasel, BeingPainted
<1>2. CASE ReadEnd
    BY <1>2 DEF ReadEnd, SuTypeOK, CardInPlace, Uploading, InChannel, OnEasel, BeingPainted
<1>3. CASE Prepare
    BY <1>3 DEF Prepare, SuTypeOK, CardInPlace, Uploading, InChannel, OnEasel, BeingPainted
<1>4. CASE TakePermit
    BY <1>4 DEF TakePermit, SuTypeOK, CardInPlace, Uploading, InChannel, OnEasel, BeingPainted
<1>5. CASE Upload
    BY <1>5 DEF Upload, SuTypeOK, CardInPlace, Uploading, InChannel, OnEasel, BeingPainted
<1>6. CASE UploadFails
    BY <1>6 DEF UploadFails, SuTypeOK, CardInPlace, Uploading, InChannel, OnEasel, BeingPainted
<1>7. CASE UploadPanics
    BY <1>7 DEF UploadPanics, SuTypeOK, CardInPlace, Uploading, InChannel, OnEasel, BeingPainted
<1>8. CASE Send("sendPrepared", "prepared")
    BY <1>8 DEF Send, SuTypeOK, CardInPlace, Uploading, InChannel, OnEasel, BeingPainted
<1>9. CASE Send("sendFailed", "failed")
    BY <1>9 DEF Send, SuTypeOK, CardInPlace, Uploading, InChannel, OnEasel, BeingPainted
<1>10. CASE ReceiveFailed
    <2>1. PICK l \in Lines \ suUnread :
            /\ suChannel = <<Streamed(l, "failed")>> /\ suChannel' = <<>>
            /\ suPrinted[l] = <<>> /\ suPrinted' = [suPrinted EXCEPT ![l] = <<"fail">>]
            /\ Busy => suProducer.line # l
        BY <1>10, FailedReceived
    <2> QED
        BY <1>10, <2>1 DEF ReceiveFailed, SuTypeOK, CardInPlace, Uploading, InChannel, OnEasel, BeingPainted
<1>11. CASE ReceivePrepared
    <2>1. PICK l \in Lines \ suUnread :
            /\ suChannel = <<Streamed(l, "prepared")>> /\ suChannel' = <<>>
            /\ suPrinted[l] = <<>> /\ suPrinted' = [suPrinted EXCEPT ![l] = <<"start">>]
            /\ Busy => suProducer.line # l
            /\ suPainter' = Painting("paint", l)
        BY <1>11, PreparedReceived
    <2>2. InChannel = {l}
        BY <2>1 DEF InChannel
    <2>3. l \in BeingPainted'
        BY <2>1 DEF BeingPainted, OnEasel
    <2>4. OnEasel = {} /\ Uploading' = Uploading /\ suCard' = suCard
        BY <1>11 DEF ReceivePrepared, OnEasel, Uploading
    <2> QED
        BY <2>2, <2>3, <2>4 DEF CardInPlace, BeingPainted
<1>12. CASE Paint
    BY <1>12 DEF Paint, SuTypeOK, CardInPlace, Uploading, InChannel, OnEasel, BeingPainted
<1>13. CASE Report
    BY <1>13 DEF Report, SuTypeOK, CardInPlace, Uploading, InChannel, OnEasel, BeingPainted
<1>14. CASE Drain
    BY <1>14 DEF Drain, SuTypeOK, CardInPlace, Uploading, InChannel, OnEasel, BeingPainted
<1>15. CASE ScopeUnwinds
    BY <1>15 DEF ScopeUnwinds, SuTypeOK, CardInPlace, Uploading, InChannel, OnEasel, BeingPainted
<1> QED
    BY <1>1, <1>2, <1>3, <1>4, <1>5, <1>6, <1>7, <1>8,
       <1>9, <1>10, <1>11, <1>12, <1>13, <1>14, <1>15
    DEF SuNext, SuProducerNext, SuPainterNext

\* Every step keeps the permits where they are held.
LEMMA KeepsPermits == ASSUME SuInv, SuNext PROVE PermitsInPlace'
<1> USE SurfaceAssumption DEF SuInv, Producing, Painting, Streamed, Busy, Painted
<1>1. ASSUME NEW l \in Lines, ReadLine(l) PROVE PermitsInPlace'
    BY <1>1 DEF ReadLine, SuTypeOK, PermitsInPlace, Use, Uploading, InChannel, OnEasel
<1>2. CASE ReadEnd
    BY <1>2 DEF ReadEnd, SuTypeOK, PermitsInPlace, Use, Uploading, InChannel, OnEasel
<1>3. CASE Prepare
    BY <1>3 DEF Prepare, SuTypeOK, PermitsInPlace, Use, Uploading, InChannel, OnEasel
<1>4. CASE TakePermit
    BY <1>4 DEF TakePermit, SuTypeOK, PermitsInPlace, Use, Uploading, InChannel, OnEasel
<1>5. CASE Upload
    BY <1>5 DEF Upload, SuTypeOK, PermitsInPlace, Use, Uploading, InChannel, OnEasel
<1>6. CASE UploadFails
    BY <1>6 DEF UploadFails, SuTypeOK, PermitsInPlace, Use, Uploading, InChannel, OnEasel
<1>7. CASE UploadPanics
    BY <1>7 DEF UploadPanics, SuTypeOK, PermitsInPlace, Use, Uploading, InChannel, OnEasel
<1>8. CASE Send("sendPrepared", "prepared")
    BY <1>8 DEF Send, SuTypeOK, PermitsInPlace, Use, Uploading, InChannel, OnEasel
<1>9. CASE Send("sendFailed", "failed")
    BY <1>9 DEF Send, SuTypeOK, PermitsInPlace, Use, Uploading, InChannel, OnEasel
<1>10. CASE ReceiveFailed
    <2>1. PICK l \in Lines \ suUnread :
            /\ suChannel = <<Streamed(l, "failed")>> /\ suChannel' = <<>>
            /\ suPrinted[l] = <<>> /\ suPrinted' = [suPrinted EXCEPT ![l] = <<"fail">>]
            /\ Busy => suProducer.line # l
        BY <1>10, FailedReceived
    <2> QED
        BY <1>10, <2>1 DEF ReceiveFailed, SuTypeOK, PermitsInPlace, Use, Uploading, InChannel, OnEasel
<1>11. CASE ReceivePrepared
    <2>1. PICK l \in Lines \ suUnread :
            /\ suChannel = <<Streamed(l, "prepared")>> /\ suChannel' = <<>>
            /\ suPrinted[l] = <<>> /\ suPrinted' = [suPrinted EXCEPT ![l] = <<"start">>]
            /\ Busy => suProducer.line # l
            /\ suPainter' = Painting("paint", l)
        BY <1>11, PreparedReceived
    <2> QED
        BY <1>11, <2>1 DEF ReceivePrepared, SuTypeOK, PermitsInPlace, Use, Uploading, InChannel, OnEasel
<1>12. CASE Paint
    BY <1>12 DEF Paint, SuTypeOK, PermitsInPlace, Use, Uploading, InChannel, OnEasel
<1>13. CASE Report
    BY <1>13 DEF Report, SuTypeOK, PermitsInPlace, Use, Uploading, InChannel, OnEasel
<1>14. CASE Drain
    BY <1>14 DEF Drain, SuTypeOK, PermitsInPlace, Use, Uploading, InChannel, OnEasel
<1>15. CASE ScopeUnwinds
    BY <1>15 DEF ScopeUnwinds, SuTypeOK, PermitsInPlace, Use, Uploading, InChannel, OnEasel
<1> QED
    BY <1>1, <1>2, <1>3, <1>4, <1>5, <1>6, <1>7, <1>8,
       <1>9, <1>10, <1>11, <1>12, <1>13, <1>14, <1>15
    DEF SuNext, SuProducerNext, SuPainterNext

\* Every step leaves each line a verdict or under way.
LEMMA KeepsVerdicts == ASSUME SuInv, SuNext PROVE VerdictsGiven'
<1> USE SurfaceAssumption DEF SuInv, Producing, Painting, Streamed, Busy, Painted
<1>1. ASSUME NEW l \in Lines, ReadLine(l) PROVE VerdictsGiven'
    BY <1>1 DEF ReadLine, SuTypeOK, LinesInPlace, VerdictsGiven
<1>2. CASE ReadEnd
    BY <1>2 DEF ReadEnd, SuTypeOK, LinesInPlace, VerdictsGiven
<1>3. CASE Prepare
    BY <1>3 DEF Prepare, SuTypeOK, LinesInPlace, VerdictsGiven
<1>4. CASE TakePermit
    BY <1>4 DEF TakePermit, SuTypeOK, LinesInPlace, VerdictsGiven
<1>5. CASE Upload
    BY <1>5 DEF Upload, SuTypeOK, LinesInPlace, VerdictsGiven
<1>6. CASE UploadFails
    BY <1>6 DEF UploadFails, SuTypeOK, LinesInPlace, VerdictsGiven
<1>7. CASE UploadPanics
    BY <1>7 DEF UploadPanics, SuTypeOK, LinesInPlace, VerdictsGiven
<1>8. CASE Send("sendPrepared", "prepared")
    BY <1>8 DEF Send, SuTypeOK, LinesInPlace, VerdictsGiven
<1>9. CASE Send("sendFailed", "failed")
    BY <1>9 DEF Send, SuTypeOK, LinesInPlace, VerdictsGiven
<1>10. CASE ReceiveFailed
    <2>1. PICK l \in Lines \ suUnread :
            /\ suChannel = <<Streamed(l, "failed")>> /\ suChannel' = <<>>
            /\ suPrinted[l] = <<>> /\ suPrinted' = [suPrinted EXCEPT ![l] = <<"fail">>]
            /\ Busy => suProducer.line # l
        BY <1>10, FailedReceived
    <2> QED
        BY <1>10, <2>1 DEF ReceiveFailed, SuTypeOK, LinesInPlace, VerdictsGiven
<1>11. CASE ReceivePrepared
    <2>1. PICK l \in Lines \ suUnread :
            /\ suChannel = <<Streamed(l, "prepared")>> /\ suChannel' = <<>>
            /\ suPrinted[l] = <<>> /\ suPrinted' = [suPrinted EXCEPT ![l] = <<"start">>]
            /\ Busy => suProducer.line # l
            /\ suPainter' = Painting("paint", l)
        BY <1>11, PreparedReceived
    <2>2. \A m \in Lines \ {l} :
              /\ suPrinted'[m] = suPrinted[m]
              /\ \A k \in {"prepared", "failed"} : suChannel # <<Streamed(m, k)>>
        BY <2>1 DEF SuTypeOK
    <2>3. Painted' /\ suPainter'.line = l /\ ~Painted
        BY <1>11, <2>1 DEF ReceivePrepared
    <2>4. UNCHANGED <<suProducer, suUnread>>
        BY <1>11 DEF ReceivePrepared
    <2> QED
        BY <1>11, <2>2, <2>3, <2>4 DEF ReceivePrepared, VerdictsGiven
<1>12. CASE Paint
    BY <1>12 DEF Paint, SuTypeOK, LinesInPlace, VerdictsGiven
<1>13. CASE Report
    BY <1>13, Reported DEF Report, SuTypeOK, LinesInPlace, VerdictsGiven
<1>14. CASE Drain
    BY <1>14 DEF Drain, SuTypeOK, LinesInPlace, VerdictsGiven
<1>15. CASE ScopeUnwinds
    BY <1>15 DEF ScopeUnwinds, SuTypeOK, LinesInPlace, VerdictsGiven
<1> QED
    BY <1>1, <1>2, <1>3, <1>4, <1>5, <1>6, <1>7, <1>8,
       <1>9, <1>10, <1>11, <1>12, <1>13, <1>14, <1>15
    DEF SuNext, SuProducerNext, SuPainterNext

\* Every failure is counted.
LEMMA KeepsCounts == ASSUME SuInv, SuNext PROVE FailuresCounted'
<1> USE SurfaceAssumption DEF SuInv, Producing, Painting, Streamed, Busy, Painted
<1>1. ASSUME NEW l \in Lines, ReadLine(l) PROVE FailuresCounted'
    BY <1>1 DEF ReadLine, SuTypeOK, LinesInPlace, FailuresCounted
<1>2. CASE ReadEnd
    BY <1>2 DEF ReadEnd, SuTypeOK, LinesInPlace, FailuresCounted
<1>3. CASE Prepare
    BY <1>3 DEF Prepare, SuTypeOK, LinesInPlace, FailuresCounted
<1>4. CASE TakePermit
    BY <1>4 DEF TakePermit, SuTypeOK, LinesInPlace, FailuresCounted
<1>5. CASE Upload
    BY <1>5 DEF Upload, SuTypeOK, LinesInPlace, FailuresCounted
<1>6. CASE UploadFails
    BY <1>6 DEF UploadFails, SuTypeOK, LinesInPlace, FailuresCounted
<1>7. CASE UploadPanics
    BY <1>7 DEF UploadPanics, SuTypeOK, LinesInPlace, FailuresCounted
<1>8. CASE Send("sendPrepared", "prepared")
    BY <1>8 DEF Send, SuTypeOK, LinesInPlace, FailuresCounted
<1>9. CASE Send("sendFailed", "failed")
    BY <1>9 DEF Send, SuTypeOK, LinesInPlace, FailuresCounted
<1>10. CASE ReceiveFailed
    <2>1. PICK l \in Lines \ suUnread :
            /\ suChannel = <<Streamed(l, "failed")>> /\ suChannel' = <<>>
            /\ suPrinted[l] = <<>> /\ suPrinted' = [suPrinted EXCEPT ![l] = <<"fail">>]
            /\ Busy => suProducer.line # l
        BY <1>10, FailedReceived
    <2> QED
        BY <1>10, <2>1 DEF ReceiveFailed, SuTypeOK, LinesInPlace, FailuresCounted
<1>11. CASE ReceivePrepared
    <2>1. PICK l \in Lines \ suUnread :
            /\ suChannel = <<Streamed(l, "prepared")>> /\ suChannel' = <<>>
            /\ suPrinted[l] = <<>> /\ suPrinted' = [suPrinted EXCEPT ![l] = <<"start">>]
            /\ Busy => suProducer.line # l
            /\ suPainter' = Painting("paint", l)
        BY <1>11, PreparedReceived
    <2> QED
        BY <1>11, <2>1 DEF ReceivePrepared, SuTypeOK, LinesInPlace, FailuresCounted
<1>12. CASE Paint
    BY <1>12 DEF Paint, SuTypeOK, LinesInPlace, FailuresCounted
<1>13. CASE Report
    BY <1>13, Reported DEF Report, SuTypeOK, LinesInPlace, FailuresCounted
<1>14. CASE Drain
    BY <1>14 DEF Drain, SuTypeOK, LinesInPlace, FailuresCounted
<1>15. CASE ScopeUnwinds
    BY <1>15 DEF ScopeUnwinds, SuTypeOK, LinesInPlace, FailuresCounted
<1> QED
    BY <1>1, <1>2, <1>3, <1>4, <1>5, <1>6, <1>7, <1>8,
       <1>9, <1>10, <1>11, <1>12, <1>13, <1>14, <1>15
    DEF SuNext, SuProducerNext, SuPainterNext

\* Nothing moves after a regular exit.
LEMMA KeepsExit == ASSUME SuInv, SuNext PROVE ExitIsLast'
<1> USE SurfaceAssumption DEF SuInv, Producing, Painting, Streamed, Busy, Painted
<1>1. ASSUME NEW l \in Lines, ReadLine(l) PROVE ExitIsLast'
    BY <1>1 DEF ReadLine, SuTypeOK, ExitIsLast, ProducerGone
<1>2. CASE ReadEnd
    BY <1>2 DEF ReadEnd, SuTypeOK, ExitIsLast, ProducerGone
<1>3. CASE Prepare
    BY <1>3 DEF Prepare, SuTypeOK, ExitIsLast, ProducerGone
<1>4. CASE TakePermit
    BY <1>4 DEF TakePermit, SuTypeOK, ExitIsLast, ProducerGone
<1>5. CASE Upload
    BY <1>5 DEF Upload, SuTypeOK, ExitIsLast, ProducerGone
<1>6. CASE UploadFails
    BY <1>6 DEF UploadFails, SuTypeOK, ExitIsLast, ProducerGone
<1>7. CASE UploadPanics
    BY <1>7 DEF UploadPanics, SuTypeOK, ExitIsLast, ProducerGone
<1>8. CASE Send("sendPrepared", "prepared")
    BY <1>8 DEF Send, SuTypeOK, ExitIsLast, ProducerGone
<1>9. CASE Send("sendFailed", "failed")
    BY <1>9 DEF Send, SuTypeOK, ExitIsLast, ProducerGone
<1>10. CASE ReceiveFailed
    BY <1>10 DEF ReceiveFailed, SuTypeOK, ExitIsLast, ProducerGone
<1>11. CASE ReceivePrepared
    BY <1>11 DEF ReceivePrepared, SuTypeOK, ExitIsLast, ProducerGone
<1>12. CASE Paint
    BY <1>12 DEF Paint, SuTypeOK, ExitIsLast, ProducerGone
<1>13. CASE Report
    BY <1>13 DEF Report, SuTypeOK, ExitIsLast, ProducerGone
<1>14. CASE Drain
    BY <1>14 DEF Drain, SuTypeOK, ExitIsLast, ProducerGone
<1>15. CASE ScopeUnwinds
    BY <1>15 DEF ScopeUnwinds, SuTypeOK, ExitIsLast, ProducerGone
<1> QED
    BY <1>1, <1>2, <1>3, <1>4, <1>5, <1>6, <1>7, <1>8,
       <1>9, <1>10, <1>11, <1>12, <1>13, <1>14, <1>15
    DEF SuNext, SuProducerNext, SuPainterNext

\* The invariant is inductive.
LEMMA SuStepInv == SuInv /\ [SuNext]_suVars => SuInv'
<1>1. SuInv /\ SuNext => SuInv'
    BY KeepsTypes, KeepsLines, KeepsCard, KeepsPermits, KeepsVerdicts, KeepsCounts, KeepsExit
    DEF SuInv
<1>2. SuInv /\ UNCHANGED suVars => SuInv'
    BY DEF suVars, SuInv, SuTypeOK, LinesInPlace, CardInPlace, PermitsInPlace, VerdictsGiven,
           FailuresCounted, ExitIsLast, Busy, Painted, Uploading, InChannel, OnEasel, BeingPainted,
           Use
<1> QED
    BY <1>1, <1>2

\* The types, for any set of lines and any number of permits.
THEOREM SurfaceTypesHold == SuSpec => []SuTypeOK
<1>1. SuInv => SuTypeOK
    BY DEF SuInv
<1> QED
    BY <1>1, SuInitInv, SuStepInv, PTL DEF SuSpec

\* The card never holds more cells than there are permits, and a regular exit
\* has a verdict for every line read and a zero status only when all of them
\* were painted and the input ended cleanly (run_relevant_source_stream).
THEOREM StreamStaysSound == SuSpec => []StreamIsSound
<1>1. SuInv => CardHoldsTwo
    <2> SUFFICES ASSUME SuInv PROVE Cardinality(suCard) <= ResidentCells
        BY DEF CardHoldsTwo
    <2>1. suCard \in SUBSET (Uploading \cup InChannel \cup OnEasel)
        BY DEF SuInv, CardInPlace, BeingPainted
    <2>2. /\ Uploading = {} \/ \E x : Uploading = {x}
          /\ OnEasel = {} \/ \E x : OnEasel = {x}
        BY DEF Uploading, OnEasel
    <2>3. InChannel = {} \/ \E x : InChannel = {x}
        <3>1. ASSUME NEW l \in InChannel, NEW k \in InChannel PROVE l = k
            <4>1. Streamed(l, "prepared") = Streamed(k, "prepared")
                BY DEF InChannel
            <4> QED
                BY <4>1 DEF Streamed
        <3> QED
            BY <3>1
    <2>4. Cardinality(suCard) <= Use(Uploading) + Use(InChannel) + Use(OnEasel)
        BY <2>1, <2>2, <2>3, HoldersCount
    <2>5. suPermits \in Nat /\ Cardinality(suCard) \in Nat
        BY SurfaceAssumption, FS_Subset, FS_CardinalityType DEF SuInv, SuTypeOK
    <2> QED
        BY <2>4, <2>5, SurfaceAssumption DEF SuInv, PermitsInPlace, Use
<1>2. SuInv => ExitIsHonest
    BY DEF SuInv, SuTypeOK, ExitIsHonest, ExitIsLast, VerdictsGiven, FailuresCounted, Busy, Painted
<1> QED
    BY <1>1, <1>2, SuInitInv, SuStepInv, PTL DEF SuSpec, StreamIsSound

-----------------------------------------------------------------------------
(* One cell.  A builder's next batch is the first of its share that the    *)
(* painter has not been handed, so that the channel whose turn it is holds *)
(* the batch the painter is at; and every tile the painter is done with is *)
(* on disk or with the writer, unless that failed.                         *)

LEMMA Multiples ==
    ASSUME NEW n \in Nat \ {0}, NEW k \in Int, NEW l \in Int, k > l
    PROVE  n * k - n * l >= n
BY SMT

LEMMA Quotient ==
    ASSUME NEW n \in Nat \ {0}, NEW a \in Nat
    PROVE  a \div n \in Int /\ a % n \in 0 .. (n - 1) /\ a = n * (a \div n) + (a % n)
<1>1. a \div n \in Int
  BY SMT
<1>2. a % n \in Int /\ a % n >= 0
  BY SMT
<1>3. a % n < n
  BY SMT
<1>4. a = n * (a \div n) + (a % n)
  BY SMT
<1> QED BY <1>1, <1>2, <1>3, <1>4

\* Two numbers of one residue that are less than n apart are one.
LEMMA SameResidue ==
    ASSUME NEW n \in Nat \ {0}, NEW a \in Nat, NEW b \in Nat, a <= b, b < a + n, a % n = b % n
    PROVE  a = b
<1>a. a \div n \in Int /\ a % n \in Int /\ a = n * (a \div n) + (a % n)
  BY Quotient
<1>b. b \div n \in Int /\ b % n \in Int /\ b = n * (b \div n) + (b % n)
  BY Quotient
<1>1. PICK k \in Int, l \in Int, r \in Int : a = n * k + r /\ b = n * l + r
  BY <1>a, <1>b, Zenon
<1>2. n * l - n * k = b - a
  BY <1>1
<1>3. ~(l > k) /\ ~(k > l)
  BY <1>2, Multiples
<1> QED BY <1>1, <1>3

LEMMA NextResidue ==
    ASSUME NEW n \in Nat \ {0}, NEW a \in Nat
    PROVE  (a + n) % n = a % n
<1>a. a \div n \in Int /\ a % n \in 0 .. (n - 1) /\ a = n * (a \div n) + (a % n)
  BY Quotient
<1>b. /\ (a + n) \div n \in Int /\ (a + n) % n \in 0 .. (n - 1)
      /\ a + n = n * ((a + n) \div n) + ((a + n) % n)
  <2>1. PICK c \in Nat : c = a + n
    OBVIOUS
  <2>2. c \div n \in Int /\ c % n \in 0 .. (n - 1) /\ c = n * (c \div n) + (c % n)
    BY Quotient
  <2> QED BY <2>1, <2>2
<1>1. PICK k \in Int, l \in Int :
          /\ a + n = n * k + ((a + n) % n) /\ a = n * l + (a % n)
          /\ (a + n) % n \in 0 .. (n - 1) /\ a % n \in 0 .. (n - 1)
  BY <1>a, <1>b, Zenon
<1>2. n * (l + 1) = n * l + n
  OBVIOUS
<1>3. ~(k > l + 1)
  <2>1. k > l + 1 => n * k - n * (l + 1) >= n
    BY Multiples
  <2> QED BY <1>1, <1>2, <2>1
<1>4. ~(l + 1 > k)
  <2>1. l + 1 > k => n * (l + 1) - n * k >= n
    BY Multiples
  <2> QED BY <1>1, <1>2, <2>1
<1>5. k = l + 1
  BY <1>3, <1>4
<1> QED BY <1>1, <1>2, <1>5

LEMMA SmallResidue ==
    ASSUME NEW n \in Nat \ {0}, NEW a \in Nat, a < n
    PROVE  a % n = a
BY SMT

InBatches == pbPainter \in {"receive", "paint", "send"}
WithBatch == pbPainter \in {"paint", "send"}

\* What a builder offers next.
SharesInOrder ==
    InBatches => \A t \in Builders :
        /\ pbBuilder[t].next % BuilderCount = t
        /\ pbIndex <= pbBuilder[t].next
        /\ IF WithBatch /\ t = Channel
           THEN pbBuilder[t].next = pbIndex + BuilderCount
           ELSE pbBuilder[t].next < pbIndex + BuilderCount

\* The tiles the painter has handed to the writer.
HandedOver == {n \in Tiles : n[1] < pbIndex \/ (n[1] = pbIndex /\ WithBatch /\ n[2] < pbTile)}

HandedAreKept ==
    pbWriter # "failed" =>
        \A n \in HandedOver : n \in pbWritten \/ \E i \in DOMAIN pbQueue : pbQueue[i] = n

\* Where the threads end.
EndsInPlace ==
    /\ InBatches => pbIndex < BatchCount
    /\ pbPainter = "join" => pbIndex = BatchCount
    /\ pbPainter = "send" => pbTile <= BatchTiles
    /\ pbWriter = "ended" => pbQueue = <<>> /\ pbPainter \in {"join", "abandoned"}
    /\ pbOutcome = "ok" => pbPainter = "join" /\ pbWriter = "ended"

PbInv ==
    /\ PbTypeOK
    /\ SharesInOrder
    /\ BatchesInOrder
    /\ HandedAreKept
    /\ EndsInPlace

LEMMA PbInitInv == PbInit => PbInv
<1> SUFFICES ASSUME PbInit PROVE PbInv
  OBVIOUS
<1> USE BatchesAssumption DEF PbInit, BatchesAssumption
<1>1. PbTypeOK
  <2>1. pbBuilder \in [Builders -> [pc : {"build", "offer", "ended", "panicked"},
                                    next : 0..(BatchCount + BuilderCount - 1)]]
    BY DEF Builders, Builder
  <2> QED BY <2>1 DEF PbTypeOK
<1>2. SharesInOrder
  <2> SUFFICES ASSUME NEW t \in Builders
               PROVE  t % BuilderCount = t /\ 0 <= t /\ t < BuilderCount
    BY DEF SharesInOrder, WithBatch, Builder
  <2>1. t \in Nat /\ t < BuilderCount
    BY DEF Builders
  <2> QED BY <2>1, SmallResidue
<1>3. HandedOver = {}
  BY DEF HandedOver, WithBatch, Tiles
<1>4. EndsInPlace
  BY DEF EndsInPlace
<1> QED BY <1>1, <1>2, <1>3, <1>4 DEF PbInv, BatchesInOrder, HandedAreKept

LEMMA ChannelIsBuilder ==
    ASSUME PbTypeOK
    PROVE  Channel \in Builders
<1>1. PICK n \in Nat \ {0}, a \in Nat : n = BuilderCount /\ a = pbIndex
  BY BatchesAssumption DEF PbTypeOK, BatchesAssumption
<1>2. a % n \in 0 .. (n - 1)
  BY Quotient
<1> QED BY <1>1, <1>2 DEF Channel, Builders

\* The batch in the channel whose turn it is.
LEMMA HandoffIsNext ==
    ASSUME PbInv, NEW t \in Builders, Handoff(t)
    PROVE  pbBuilder[t].next = pbIndex /\ pbIndex < BatchCount
<1>1. pbPainter = "receive" /\ t = pbIndex % BuilderCount /\ pbIndex < BatchCount
  BY DEF PbInv, EndsInPlace, InBatches, Handoff, Channel
<1>2. /\ pbBuilder[t].next % BuilderCount = t /\ pbIndex <= pbBuilder[t].next
      /\ pbBuilder[t].next < pbIndex + BuilderCount
  BY <1>1 DEF PbInv, SharesInOrder, InBatches, WithBatch
<1>3. pbBuilder[t].next \in Nat /\ pbIndex \in Nat /\ BuilderCount \in Nat \ {0}
  BY BatchesAssumption DEF PbInv, PbTypeOK, BatchesAssumption
<1> QED BY <1>1, <1>2, <1>3, SameResidue

LEMMA KeepsPbTypes == ASSUME PbInv, PbNext PROVE PbTypeOK'
<1> USE BatchesAssumption DEF BatchesAssumption
<1>0. PbTypeOK
  BY DEF PbInv
<1>1. ASSUME NEW t \in Builders, Build(t) \/ OfferFails(t) PROVE PbTypeOK'
  <2>1. PICK pc \in {"offer", "panicked", "ended"} : pbBuilder' = [pbBuilder EXCEPT ![t].pc = pc]
    BY <1>1 DEF Build, OfferFails
  <2>2. pbBuilder' \in [Builders -> [pc : {"build", "offer", "ended", "panicked"},
                                    next : 0..(BatchCount + BuilderCount - 1)]]
    BY <1>0, <2>1 DEF PbTypeOK
  <2> QED BY <1>0, <1>1, <2>2 DEF PbTypeOK, Build, OfferFails
<1>2. ASSUME NEW t \in Builders, Handoff(t) PROVE PbTypeOK'
  <2>1. pbBuilder[t].next = pbIndex /\ pbIndex < BatchCount /\ pbIndex \in Nat
    BY <1>2, HandoffIsNext DEF PbInv, PbTypeOK
  <2>2. After(t) \in [pc : {"build", "offer", "ended", "panicked"},
                      next : 0..(BatchCount + BuilderCount - 1)]
    BY <2>1 DEF After, Builder
  <2>3. pbBuilder' \in [Builders -> [pc : {"build", "offer", "ended", "panicked"},
                                    next : 0..(BatchCount + BuilderCount - 1)]]
    BY <1>0, <1>2, <2>2 DEF PbTypeOK, Handoff
  <2>4. pbBatch' = pbIndex /\ pbTile' = 1 /\ pbPainter' = "paint"
        /\ UNCHANGED <<pbIndex, pbQueue, pbWriter, pbWritten, pbOutcome>>
    BY <1>2, <2>1 DEF Handoff
  <2> QED BY <1>0, <2>1, <2>3, <2>4 DEF PbTypeOK
<1>3. CASE HandoffFails \/ PaintTile \/ SendTileFails
  BY <1>0, <1>3 DEF HandoffFails, PaintTile, SendTileFails, PbTypeOK
<1>4. CASE SendTile
  <2>1. <<pbBatch, pbTile>> \in Tiles /\ pbTile + 1 \in 1..(BatchTiles + 1)
    BY <1>0, <1>4 DEF PbTypeOK, Tiles, SendTile, PbInv, EndsInPlace
  <2>2. pbQueue' \in Seq(Tiles) /\ Len(pbQueue') <= PendingWrites
    BY <1>0, <1>4, <2>1 DEF PbTypeOK, SendTile
  <2> QED BY <1>0, <1>4, <2>1, <2>2 DEF PbTypeOK, SendTile
<1>5. CASE BatchPainted
  BY <1>0, <1>5 DEF PbTypeOK, BatchPainted, PbInv, EndsInPlace, InBatches
<1>6. CASE Write
  <2>1. Head(pbQueue) \in Tiles /\ Tail(pbQueue) \in Seq(Tiles) /\ Len(Tail(pbQueue)) <= PendingWrites
    BY <1>0, <1>6 DEF PbTypeOK, Write
  <2> QED BY <1>0, <1>6, <2>1 DEF PbTypeOK, Write
<1>7. CASE WriteFails \/ WriterEnds
  <2>1. pbQueue' = <<>> /\ Len(<<>>) = 0 /\ <<>> \in Seq(Tiles)
    BY <1>7 DEF WriteFails, WriterEnds
  <2> QED BY <1>0, <1>7, <2>1 DEF PbTypeOK, WriteFails, WriterEnds
<1>8. CASE ScopeEnds
  <2>1. Result \in {"ok", "error", "panic"}
    BY DEF Result
  <2> QED BY <1>0, <1>8, <2>1 DEF PbTypeOK, ScopeEnds
<1> QED BY <1>1, <1>2, <1>3, <1>4, <1>5, <1>6, <1>7, <1>8 DEF PbNext, PbPainterNext, PbWriterNext

\* The painter moves on to a batch of the next channel.
LEMMA KeepsShares == ASSUME PbInv, PbNext PROVE SharesInOrder' /\ BatchesInOrder'
<1> USE BatchesAssumption DEF BatchesAssumption
<1>0. PbTypeOK /\ Channel \in Builders /\ BuilderCount \in Nat \ {0} /\ pbIndex \in Nat
  BY ChannelIsBuilder DEF PbInv, PbTypeOK
<1>t. \A t \in Builders : pbBuilder[t].next \in Nat
  BY <1>0 DEF PbTypeOK
<1>1. ASSUME NEW t \in Builders, Build(t) \/ OfferFails(t) PROVE SharesInOrder' /\ BatchesInOrder'
  <2>1. \A u \in Builders : pbBuilder'[u].next = pbBuilder[u].next
    <3>1. PICK pc : pbBuilder' = [pbBuilder EXCEPT ![t].pc = pc]
      BY <1>1 DEF Build, OfferFails
    <3> QED BY <1>0, <3>1 DEF PbTypeOK
  <2>2. UNCHANGED <<pbPainter, pbIndex, pbBatch>>
    BY <1>1 DEF Build, OfferFails
  <2> QED BY <2>1, <2>2 DEF PbInv, SharesInOrder, BatchesInOrder, InBatches, WithBatch, Channel
<1>2. ASSUME NEW t \in Builders, Handoff(t) PROVE SharesInOrder' /\ BatchesInOrder'
  <2>1. pbBuilder[t].next = pbIndex /\ pbPainter = "receive" /\ t = Channel
    BY <1>2, HandoffIsNext DEF Handoff
  <2>2. pbBatch' = pbIndex /\ pbIndex' = pbIndex /\ pbPainter' = "paint" /\ Channel' = Channel
    BY <1>2, <2>1 DEF Handoff, Channel
  <2>3. \A u \in Builders : pbBuilder'[u].next = IF u = t THEN pbIndex + BuilderCount ELSE pbBuilder[u].next
    BY <1>0, <1>2, <2>1 DEF Handoff, After, Builder, PbTypeOK
  <2>4. \A u \in Builders : /\ pbBuilder[u].next % BuilderCount = u /\ pbIndex <= pbBuilder[u].next
                            /\ pbBuilder[u].next < pbIndex + BuilderCount
    BY <2>1 DEF PbInv, SharesInOrder, InBatches, WithBatch
  <2>5. (pbIndex + BuilderCount) % BuilderCount = t
    BY <1>0, <2>1, NextResidue DEF Channel
  <2>6. SharesInOrder'
    <3> SUFFICES ASSUME NEW u \in Builders
                 PROVE  /\ pbBuilder'[u].next % BuilderCount = u
                        /\ pbIndex <= pbBuilder'[u].next
                        /\ IF u = t THEN pbBuilder'[u].next = pbIndex + BuilderCount
                           ELSE pbBuilder'[u].next < pbIndex + BuilderCount
      BY <2>1, <2>2 DEF SharesInOrder, WithBatch
    <3>1. CASE u = t
      BY <1>0, <2>3, <2>5, <3>1
    <3>2. CASE u # t
      BY <2>3, <2>4, <3>2
    <3> QED BY <3>1, <3>2
  <2> QED BY <2>2, <2>6 DEF BatchesInOrder
<1>3. CASE HandoffFails \/ PaintTile \/ SendTile \/ SendTileFails
  <2>1. UNCHANGED <<pbBuilder, pbIndex, pbBatch>> /\ (InBatches' => InBatches /\ WithBatch' = WithBatch)
    BY <1>3 DEF HandoffFails, PaintTile, SendTile, SendTileFails, InBatches, WithBatch
  <2>2. SharesInOrder'
    BY <2>1 DEF PbInv, SharesInOrder, Channel
  <2>3. BatchesInOrder'
    BY <1>3 DEF PbInv, BatchesInOrder, HandoffFails, PaintTile, SendTile, SendTileFails
  <2> QED BY <2>2, <2>3
<1>4. CASE BatchPainted
  <2>1. pbPainter = "paint" /\ pbIndex' = pbIndex + 1 /\ pbPainter' \in {"receive", "join"}
        /\ UNCHANGED pbBuilder
    BY <1>4 DEF BatchPainted
  <2>2. ASSUME NEW t \in Builders
        PROVE  /\ pbBuilder[t].next % BuilderCount = t
               /\ pbIndex + 1 <= pbBuilder[t].next
               /\ pbBuilder[t].next < pbIndex + 1 + BuilderCount
    <3>1. pbBuilder[t].next % BuilderCount = t /\ pbIndex <= pbBuilder[t].next
      BY <2>1 DEF PbInv, SharesInOrder, InBatches
    <3>2. CASE t = Channel
      <4>1. pbBuilder[t].next = pbIndex + BuilderCount
        BY <2>1, <3>2 DEF PbInv, SharesInOrder, InBatches, WithBatch
      <4> QED BY <1>0, <3>1, <4>1
    <3>3. CASE t # Channel
      <4>1. pbBuilder[t].next < pbIndex + BuilderCount
        BY <2>1, <3>3 DEF PbInv, SharesInOrder, InBatches, WithBatch
      <4>2. pbBuilder[t].next # pbIndex
        BY <3>1, <3>3 DEF Channel
      <4> QED BY <1>0, <1>t, <3>1, <4>1, <4>2
    <3> QED BY <3>2, <3>3
  <2> QED BY <2>1, <2>2 DEF SharesInOrder, BatchesInOrder, WithBatch
<1>5. CASE ScopeEnds \/ Write \/ WriteFails \/ WriterEnds
  <2>1. UNCHANGED <<pbBuilder, pbIndex, pbBatch, pbPainter>>
    BY <1>5 DEF ScopeEnds, Write, WriteFails, WriterEnds
  <2> QED BY <2>1 DEF PbInv, SharesInOrder, BatchesInOrder, InBatches, WithBatch, Channel
<1> QED BY <1>1, <1>2, <1>3, <1>4, <1>5 DEF PbNext, PbPainterNext, PbWriterNext

LEMMA KeepsHanded == ASSUME PbInv, PbNext PROVE HandedAreKept'
<1> SUFFICES ASSUME pbWriter' # "failed", NEW n \in Tiles, (n \in HandedOver)'
             PROVE  n \in pbWritten' \/ \E i \in DOMAIN pbQueue' : pbQueue'[i] = n
  BY DEF HandedAreKept, HandedOver
<1> USE BatchesAssumption DEF BatchesAssumption
<1>0. PbTypeOK /\ pbQueue \in Seq(Tiles) /\ pbIndex \in Nat /\ pbTile \in Nat
  BY DEF PbInv, PbTypeOK
<1>n. n[1] \in Nat /\ n[2] \in 1..BatchTiles /\ n = <<n[1], n[2]>>
  BY DEF Tiles
<1>1. ASSUME n \in HandedOver, pbWriter # "failed", pbWritten \subseteq pbWritten', pbQueue' = pbQueue
      PROVE  n \in pbWritten' \/ \E i \in DOMAIN pbQueue' : pbQueue'[i] = n
  BY <1>1 DEF PbInv, HandedAreKept
<1>2. CASE \E t \in Builders : Build(t) \/ OfferFails(t)
  BY <1>1, <1>2 DEF Build, OfferFails, HandedOver, WithBatch
<1>3. CASE \E t \in Builders : Handoff(t)
  <2>1. pbTile' = 1 /\ UNCHANGED <<pbIndex, pbQueue, pbWriter, pbWritten>>
    BY <1>3 DEF Handoff
  <2>2. n[1] < pbIndex
    BY <1>n, <2>1 DEF HandedOver
  <2> QED BY <1>1, <2>1, <2>2 DEF HandedOver
<1>4. CASE HandoffFails \/ PaintTile \/ SendTileFails
  BY <1>1, <1>4 DEF HandoffFails, PaintTile, SendTileFails, HandedOver, WithBatch
<1>5. CASE SendTile
  <2>1. /\ pbQueue' = Append(pbQueue, <<pbBatch, pbTile>>) /\ pbTile' = pbTile + 1
        /\ pbWriter = "run" /\ pbPainter = "send"
        /\ UNCHANGED <<pbIndex, pbBatch, pbWritten>> /\ pbBatch = pbIndex
    BY <1>5 DEF SendTile, PbInv, BatchesInOrder
  <2>2. \A i \in DOMAIN pbQueue : i \in DOMAIN pbQueue' /\ pbQueue'[i] = pbQueue[i]
    BY <1>0, <2>1
  <2>3. CASE n \in HandedOver
    <3>1. n \in pbWritten \/ \E i \in DOMAIN pbQueue : pbQueue[i] = n
      BY <2>1, <2>3 DEF PbInv, HandedAreKept
    <3> QED BY <2>1, <2>2, <3>1
  <2>4. CASE n \notin HandedOver
    <3>1. n[1] = pbIndex /\ n[2] = pbTile
      BY <1>0, <1>n, <2>1, <2>4 DEF HandedOver, WithBatch
    <3>2. n = <<pbBatch, pbTile>>
      BY <1>n, <2>1, <3>1
    <3>3. Len(pbQueue) + 1 \in DOMAIN pbQueue' /\ pbQueue'[Len(pbQueue) + 1] = n
      BY <1>0, <2>1, <3>2
    <3> QED BY <3>3
  <2> QED BY <2>3, <2>4
<1>6. CASE BatchPainted
  <2>1. pbPainter = "paint" /\ pbTile > BatchTiles /\ pbIndex' = pbIndex + 1
        /\ pbPainter' \notin {"paint", "send"} /\ UNCHANGED <<pbQueue, pbWriter, pbWritten>>
    BY <1>6 DEF BatchPainted
  <2>2. n[1] < pbIndex + 1
    BY <2>1 DEF HandedOver, WithBatch
  <2>3. n \in HandedOver
    BY <1>0, <1>n, <2>1, <2>2 DEF HandedOver, WithBatch
  <2> QED BY <1>1, <2>1, <2>3
<1>7. CASE Write
  <2>1. n \in HandedOver /\ pbWriter = "run" /\ pbQueue # <<>> /\ pbQueue' = Tail(pbQueue)
        /\ pbWritten' = pbWritten \cup {Head(pbQueue)}
    BY <1>7 DEF Write, HandedOver, WithBatch
  <2>2. n \in pbWritten \/ \E i \in DOMAIN pbQueue : pbQueue[i] = n
    BY <2>1 DEF PbInv, HandedAreKept
  <2>3. ASSUME NEW i \in DOMAIN pbQueue, pbQueue[i] = n
        PROVE  n \in pbWritten' \/ \E j \in DOMAIN pbQueue' : pbQueue'[j] = n
    <3>1. CASE i = 1
      BY <2>1, <2>3, <3>1
    <3>2. CASE i # 1
      <4>1. i - 1 \in DOMAIN Tail(pbQueue) /\ Tail(pbQueue)[i - 1] = pbQueue[i]
        BY <1>0, <2>1, <2>3, <3>2
      <4> QED BY <2>1, <2>3, <4>1
    <3> QED BY <3>1, <3>2
  <2> QED BY <2>1, <2>2, <2>3
<1>8. CASE WriteFails \/ WriterEnds \/ ScopeEnds
  <2>1. ~WriteFails
    BY DEF WriteFails
  <2> QED BY <1>1, <1>8, <2>1 DEF WriterEnds, ScopeEnds, HandedOver, WithBatch
<1> QED BY <1>2, <1>3, <1>4, <1>5, <1>6, <1>7, <1>8 DEF PbNext, PbPainterNext, PbWriterNext

LEMMA KeepsEnds == ASSUME PbInv, PbNext PROVE EndsInPlace'
<1> USE DEF EndsInPlace, InBatches
<1>0. PbTypeOK /\ EndsInPlace /\ pbIndex \in 0..BatchCount /\ pbTile \in Nat
  BY DEF PbInv, PbTypeOK
<1>1. CASE \E t \in Builders : Build(t) \/ OfferFails(t)
  BY <1>0, <1>1 DEF Build, OfferFails
<1>2. CASE \E t \in Builders : Handoff(t)
  BY <1>0, <1>2 DEF Handoff
<1>3. CASE HandoffFails \/ PaintTile \/ SendTileFails
  BY <1>0, <1>3 DEF HandoffFails, PaintTile, SendTileFails
<1>4. CASE SendTile
  BY <1>0, <1>4 DEF SendTile
<1>5. CASE BatchPainted
  BY <1>0, <1>5, BatchesAssumption DEF BatchPainted, BatchesAssumption
<1>6. CASE Write \/ WriteFails \/ WriterEnds
  BY <1>0, <1>6 DEF Write, WriteFails, WriterEnds
<1>7. CASE ScopeEnds
  BY <1>0, <1>7 DEF ScopeEnds, Result
<1> QED BY <1>1, <1>2, <1>3, <1>4, <1>5, <1>6, <1>7 DEF PbNext, PbPainterNext, PbWriterNext

LEMMA PbStepInv == PbInv /\ [PbNext]_pbVars => PbInv'
<1>1. PbInv /\ PbNext => PbInv'
  BY KeepsPbTypes, KeepsShares, KeepsHanded, KeepsEnds DEF PbInv
<1>2. ASSUME PbInv, UNCHANGED pbVars PROVE PbInv'
  <2>1. UNCHANGED <<pbBuilder, pbPainter, pbIndex, pbBatch, pbTile, pbQueue, pbWriter, pbWritten, pbOutcome>>
    BY <1>2 DEF pbVars
  <2> QED BY <1>2, <2>1 DEF PbInv, PbTypeOK, SharesInOrder, BatchesInOrder, HandedAreKept, HandedOver,
            EndsInPlace, InBatches, WithBatch, Channel
<1> QED BY <1>1, <1>2

\* The types, for any number of batches, builders and tiles: no more than
\* PendingWrites painted tiles wait.
THEOREM BatchTypesHold == PbSpec => []PbTypeOK
<1>1. PbInv => PbTypeOK
  BY DEF PbInv
<1> QED BY <1>1, PbInitInv, PbStepInv, PTL DEF PbSpec

\* Whatever the builders do and however many there are, the card gets the batches
\* in the order of the list, and a cell is only done with all its tiles on disk
\* (paint_region, spawn_raster_batches).
THEOREM ListAlwaysPainted == PbSpec => []ListIsPainted
<1>1. PbInv => BatchesInOrder
  BY DEF PbInv
<1>2. ASSUME PbInv PROVE DoneIsWritten
  <2> SUFFICES ASSUME pbOutcome = "ok", NEW n \in Tiles
               PROVE  n \in pbWritten
    BY <1>2 DEF DoneIsWritten, PbInv, PbTypeOK
  <2>1. pbIndex = BatchCount /\ pbWriter = "ended" /\ pbQueue = <<>>
    BY <1>2 DEF PbInv, EndsInPlace
  <2>2. n \in HandedOver
    BY <2>1, BatchesAssumption DEF HandedOver, Tiles, BatchesAssumption
  <2> QED BY <1>2, <2>1, <2>2 DEF PbInv, HandedAreKept
<1> QED BY <1>1, <1>2, PbInitInv, PbStepInv, PTL DEF PbSpec, ListIsPainted

-----------------------------------------------------------------------------
(* The airborne worker.  A worker holds permits exactly while it builds,   *)
(* as many as its cell wants; those and the free ones are all there are.   *)
(* A cell that was read and not answered is in one of five places.         *)

Admitted == {w \in Streams : abWorker[w].held > 0}
Announced == {w \in Streams : abWorker[w].pc \in {"sleep", "recheck"} /\ Exclusive(abWorker[w].job)}

BuildersHold ==
    \A w \in Streams :
        /\ abWorker[w].held > 0 <=> abWorker[w].pc = "build"
        /\ abWorker[w].pc = "build" => abWorker[w].held = Want(abWorker[w].job)

\* One worker has all the permits, or each has one or none.
PermitsAccounted ==
    \/ \E w \in Streams : Admitted = {w} /\ abWorker[w].held = Total /\ abGate.available = 0
    \/ /\ \A w \in Streams : abWorker[w].held \in {0, 1}
       /\ abGate.available + Cardinality(Admitted) = Total

InQueue(c) == \E i \in DOMAIN abQueue : abQueue[i] = c
InRun(c) == \E i \in DOMAIN abPrep.run : abPrep.run[i] = c
InPrep(c) == abPrep.job.cell = c
OnWay(c) == \E i \in DOMAIN abChannel : abChannel[i].cell = c
InWorker(c) == \E w \in Streams : abWorker[w].job.cell = c

NoneTwice ==
    /\ \A i, j \in DOMAIN abQueue : abQueue[i] = abQueue[j] => i = j
    /\ \A i, j \in DOMAIN abPrep.run : abPrep.run[i] = abPrep.run[j] => i = j
    /\ \A w, v \in Streams : abWorker[w].job.cell = abWorker[v].job.cell /\ w # v =>
           abWorker[w].job.cell = NoCell

OnePlace ==
    \A c \in AirCells :
        /\ c \in abOpen <=> InQueue(c) \/ InRun(c) \/ InPrep(c) \/ OnWay(c) \/ InWorker(c)
        /\ ~(InQueue(c) /\ (InRun(c) \/ InPrep(c) \/ OnWay(c) \/ InWorker(c)))
        /\ ~(InRun(c) /\ (InPrep(c) \/ OnWay(c) \/ InWorker(c)))
        /\ ~(InPrep(c) /\ (OnWay(c) \/ InWorker(c)))
        /\ ~(OnWay(c) /\ InWorker(c))

HandsEmpty ==
    /\ abPrep.pc = "prepare" <=> abPrep.pc # "send" /\ abPrep.run # <<>>
    /\ abPrep.pc # "send" => abPrep.job = NoJob
    /\ \A w \in Streams : abWorker[w].pc \in {"open", "receive", "ended"} => abWorker[w].job = NoJob

AbInv ==
    /\ AbTypeOK
    /\ BuildersHold
    /\ PermitsAccounted
    /\ abGate.waiters = Cardinality(Announced)
    /\ NoneTwice
    /\ OnePlace
    /\ HandsEmpty

\* Counting workers.
LEMMA StreamsCount ==
    ASSUME NEW S, S \subseteq Streams
    PROVE  /\ Total \in Nat /\ Total >= 1
           /\ IsFiniteSet(S) /\ Cardinality(S) \in 0 .. Total
           /\ S = {} <=> Cardinality(S) = 0
           /\ \A w \in Streams \ S : Cardinality(S \cup {w}) = Cardinality(S) + 1
           /\ \A w \in S : Cardinality(S \ {w}) = Cardinality(S) - 1 /\ Cardinality(S) >= 1
<1>0. IsFiniteSet(Streams) /\ Streams # {}
  BY AirborneAssumption DEF AirborneAssumption
<1>1. Total \in Nat /\ IsFiniteSet(S) /\ Cardinality(S) \in Nat /\ Cardinality(S) <= Total
  BY <1>0, FS_Subset, FS_CardinalityType DEF Total
<1>2. Total >= 1
  BY <1>0, <1>1, FS_EmptySet DEF Total
<1>3. S = {} <=> Cardinality(S) = 0
  BY <1>1, FS_EmptySet
<1>4. \A w \in Streams \ S : Cardinality(S \cup {w}) = Cardinality(S) + 1
  BY <1>1, FS_AddElement
<1>5. \A w \in S : Cardinality(S \ {w}) = Cardinality(S) - 1
  BY <1>1, FS_RemoveElement
<1>6. \A w \in S : Cardinality(S) >= 1
  BY <1>1, <1>3
<1> QED BY <1>1, <1>2, <1>3, <1>4, <1>5, <1>6

LEMMA WantsPermits == \A job : Want(job) \in {1, Total} /\ Want(job) \in 1 .. Total /\ Total \in Nat
<1>1. Total \in Nat /\ Total >= 1
  BY StreamsCount
<1> QED BY <1>1 DEF Want

\* The permits of one worker change.
LEMMA PermitsMove ==
    ASSUME AbTypeOK, PermitsAccounted, NEW w \in Streams,
           \A v \in Streams \ {w} : abWorker'[v].held = abWorker[v].held,
           abWorker'[w].held \in {0, 1, Total}, abWorker'[w].held > 0 => abWorker[w].held = 0,
           abWorker'[w].held <= abGate.available + abWorker[w].held,
           abGate'.available = abGate.available + abWorker[w].held - abWorker'[w].held
    PROVE  PermitsAccounted'
<1>0. /\ Total \in Nat /\ Total >= 1 /\ abGate.available \in 0 .. Total
      /\ abWorker[w].held \in 0 .. Total /\ abWorker'[w].held \in 0 .. Total
      /\ \A v \in Streams : abWorker[v].held \in 0 .. Total
  <2>1. Total \in Nat /\ Total >= 1
    BY StreamsCount
  <2>2. abGate.available \in 0 .. Total /\ \A v \in Streams : abWorker[v].held \in 0 .. Total
    BY DEF AbTypeOK
  <2> QED BY <2>1, <2>2
<1>a. Admitted \subseteq Streams /\ Admitted' \subseteq Streams
  BY DEF Admitted
<1>1. CASE \E v \in Streams : Admitted = {v} /\ abWorker[v].held = Total /\ abGate.available = 0
  <2>1. PICK v \in Streams : Admitted = {v} /\ abWorker[v].held = Total /\ abGate.available = 0
    BY <1>1
  <2>2. CASE w = v
    <3>1. abWorker'[w].held = 0 /\ abGate'.available = Total
      BY <1>0, <2>1, <2>2
    <3>2. \A u \in Streams : abWorker'[u].held = 0
      <4> SUFFICES ASSUME NEW u \in Streams, u # w PROVE abWorker[u].held = 0
        BY <3>1
      <4> QED BY <1>0, <2>1, <2>2 DEF Admitted
    <3>3. Admitted' = {}
      BY <3>2 DEF Admitted
    <3>4. Cardinality(Admitted') = 0
      BY <3>3, FS_EmptySet
    <3> QED BY <1>0, <3>1, <3>2, <3>4 DEF PermitsAccounted
  <2>3. CASE w # v
    <3>1. abWorker[w].held = 0
      BY <1>0, <2>1, <2>3 DEF Admitted
    <3>2. abWorker'[w].held = 0 /\ abGate'.available = 0
      BY <1>0, <2>1, <3>1
    <3>3. Admitted' = Admitted /\ abWorker'[v].held = Total
      BY <2>1, <2>3, <3>1, <3>2 DEF Admitted
    <3> QED BY <2>1, <3>2, <3>3 DEF PermitsAccounted
  <2> QED BY <2>2, <2>3
<1>2. CASE (\A v \in Streams : abWorker[v].held \in {0, 1}) /\ abGate.available + Cardinality(Admitted) = Total
  <2>0. Cardinality(Admitted) \in 0 .. Total
    BY <1>a, StreamsCount
  <2>1. CASE abWorker'[w].held = abWorker[w].held
    <3>1. Admitted' = Admitted /\ \A v \in Streams : abWorker'[v].held \in {0, 1}
      BY <1>2, <2>1 DEF Admitted
    <3> QED BY <1>0, <1>2, <2>1, <3>1 DEF PermitsAccounted
  <2>2. CASE abWorker'[w].held = 0 /\ abWorker[w].held = 1
    <3>1. Admitted' = Admitted \ {w} /\ w \in Admitted /\ \A v \in Streams : abWorker'[v].held \in {0, 1}
      BY <1>2, <2>2 DEF Admitted
    <3>2. Cardinality(Admitted') = Cardinality(Admitted) - 1
      BY <1>a, <3>1, StreamsCount
    <3> QED BY <1>0, <1>2, <2>0, <2>2, <3>1, <3>2 DEF PermitsAccounted
  <2>3. CASE abWorker'[w].held = 1 /\ abWorker[w].held = 0
    <3>1. Admitted' = Admitted \cup {w} /\ w \notin Admitted /\ \A v \in Streams : abWorker'[v].held \in {0, 1}
      BY <1>2, <2>3 DEF Admitted
    <3>2. Cardinality(Admitted') = Cardinality(Admitted) + 1
      BY <1>a, <3>1, StreamsCount
    <3> QED BY <1>0, <1>2, <2>0, <2>3, <3>1, <3>2 DEF PermitsAccounted
  <2>4. CASE abWorker'[w].held = Total /\ abWorker[w].held = 0
    <3>1. abGate.available = Total /\ Cardinality(Admitted) = 0 /\ abGate'.available = 0
      BY <1>0, <1>2, <2>0, <2>4
    <3>2. Admitted = {}
      BY <1>a, <3>1, StreamsCount
    <3>3. Admitted' = {w}
      <4>1. \A v \in Streams : v # w => ~(abWorker'[v].held > 0)
        BY <3>2 DEF Admitted
      <4>2. abWorker'[w].held > 0
        BY <1>0, <2>4
      <4> QED BY <4>1, <4>2 DEF Admitted
    <3> QED BY <2>4, <3>1, <3>3 DEF PermitsAccounted
  <2> QED BY <1>0, <1>2, <2>1, <2>2, <2>3, <2>4
<1> QED BY <1>1, <1>2 DEF PermitsAccounted

LEMMA WaitersMove ==
    ASSUME AbTypeOK, abGate.waiters = Cardinality(Announced), NEW w \in Streams,
           \/ Announced' = Announced /\ abGate'.waiters = abGate.waiters
           \/ w \notin Announced /\ Announced' = Announced \cup {w} /\ abGate'.waiters = abGate.waiters + 1
           \/ w \in Announced /\ Announced' = Announced \ {w} /\ abGate'.waiters = abGate.waiters - 1
    PROVE  abGate'.waiters = Cardinality(Announced') /\ abGate'.waiters \in 0 .. Total
<1>1. Announced \subseteq Streams /\ Announced' \subseteq Streams
  BY DEF Announced
<1>2. Cardinality(Announced') \in 0 .. Total
  BY <1>1, StreamsCount
<1>3. w \notin Announced => Cardinality(Announced \cup {w}) = Cardinality(Announced) + 1
  BY <1>1, StreamsCount
<1>4. w \in Announced => Cardinality(Announced \ {w}) = Cardinality(Announced) - 1
  BY <1>1, StreamsCount
<1> QED BY <1>2, <1>3, <1>4

WorkerPcs ==
    {"open", "receive", "acquire", "sleep", "recheck", "build", "notifyPrint", "notifyUpgrade",
     "notifyPanic", "print", "panicked", "ended"}
Workers == [Streams -> [pc : WorkerPcs, job : Jobs, held : 0..Total]]

\* The other workers may be woken, no more.
OthersWoken(w, W) ==
    \A v \in Streams \ {w} :
        /\ W[v].job = abWorker[v].job /\ W[v].held = abWorker[v].held
        /\ W[v].pc = abWorker[v].pc \/ (abWorker[v].pc = "sleep" /\ W[v].pc = "recheck")

LEMMA WokenIs ==
    ASSUME AbTypeOK, NEW w \in Streams
    PROVE  /\ Woken(abWorker) \in Workers /\ OthersWoken(w, Woken(abWorker))
           /\ abWorker[w].pc # "sleep" => Woken(abWorker)[w] = abWorker[w]
           /\ Woken(abWorker)[w].job = abWorker[w].job
           /\ Woken(abWorker)[w].held = abWorker[w].held
<1>1. abWorker \in Workers
  BY DEF AbTypeOK, Workers, WorkerPcs
<1>2. Woken(abWorker) \in Workers
  BY <1>1 DEF Woken, Workers, WorkerPcs
<1>3. \A v \in Streams : /\ Woken(abWorker)[v].job = abWorker[v].job
                         /\ Woken(abWorker)[v].held = abWorker[v].held
                         /\ Woken(abWorker)[v].pc = IF abWorker[v].pc = "sleep" THEN "recheck" ELSE abWorker[v].pc
                         /\ abWorker[v].pc # "sleep" => Woken(abWorker)[v] = abWorker[v]
  BY <1>1 DEF Woken, Workers
<1> QED BY <1>2, <1>3 DEF OthersWoken

\* One worker does something; what is announced changes by that worker at most.
LEMMA AnnouncedBy ==
    ASSUME NEW w \in Streams, OthersWoken(w, abWorker')
    PROVE  /\ Announced' \ {w} = Announced \ {w}
           /\ w \in Announced' <=>
                  abWorker'[w].pc \in {"sleep", "recheck"} /\ Exclusive(abWorker'[w].job)
           /\ w \in Announced <=>
                  abWorker[w].pc \in {"sleep", "recheck"} /\ Exclusive(abWorker[w].job)
<1>1. ASSUME NEW v \in Streams \ {w} PROVE v \in Announced' <=> v \in Announced
  BY <1>1 DEF OthersWoken, Announced
<1>2. Announced' \subseteq Streams /\ Announced \subseteq Streams
  BY DEF Announced
<1>3. Announced' \ {w} = Announced \ {w}
  BY <1>1, <1>2
<1>4. w \in Announced' <=> abWorker'[w].pc \in {"sleep", "recheck"} /\ Exclusive(abWorker'[w].job)
  BY DEF Announced
<1>5. w \in Announced <=> abWorker[w].pc \in {"sleep", "recheck"} /\ Exclusive(abWorker[w].job)
  BY DEF Announced
<1> QED BY <1>3, <1>4, <1>5

\* A worker takes its permits or sleeps.
LEMMA TakeStep ==
    ASSUME AbInv, NEW w \in Streams, abWorker[w].pc \in {"acquire", "recheck"},
           NEW W \in Workers, OthersWoken(w, W), W[w] = abWorker[w],
           NEW gate, gate.available = abGate.available,
           gate = [available |-> gate.available, waiters |-> gate.waiters],
           gate.waiters = IF abWorker[w].pc = "acquire" /\ Exclusive(abWorker[w].job)
                          THEN abGate.waiters + 1 ELSE abGate.waiters,
           TakeOrSleep(w, W, gate)
    PROVE  /\ abWorker' \in Workers
           /\ abGate' \in [available : 0..Total, waiters : 0..Total]
           /\ BuildersHold' /\ PermitsAccounted' /\ abGate'.waiters = Cardinality(Announced')
           /\ \A v \in Streams : abWorker'[v].job = abWorker[v].job
           /\ \A v \in Streams \ {w} : abWorker'[v].pc \in {abWorker[v].pc, "recheck"}
           /\ abWorker'[w].pc \in {"sleep", "build"}
<1>0. AbTypeOK /\ PermitsAccounted /\ BuildersHold /\ abGate.waiters = Cardinality(Announced)
  BY DEF AbInv
<1>1. /\ abWorker[w].held = 0 /\ Total \in Nat /\ Total >= 1 /\ abWorker[w].job \in Jobs
      /\ abGate.available \in 0 .. Total /\ abGate.waiters \in 0 .. Total
  <2>1. Total \in Nat /\ Total >= 1
    BY StreamsCount
  <2>2. abWorker[w].job \in Jobs /\ abWorker[w].held \in 0 .. Total
        /\ abGate.available \in 0 .. Total /\ abGate.waiters \in 0 .. Total
    BY <1>0 DEF AbTypeOK
  <2>3. ~(abWorker[w].held > 0)
    BY <1>0 DEF BuildersHold
  <2> QED BY <2>1, <2>2, <2>3
<1>2. CASE Blocked(W[w].job, gate)
  <2>1. abGate' = gate /\ abWorker' = [W EXCEPT ![w].pc = "sleep"]
    BY <1>2 DEF TakeOrSleep
  <2>2. abWorker' \in Workers /\ abWorker'[w] = [abWorker[w] EXCEPT !.pc = "sleep"]
        /\ \A v \in Streams \ {w} : abWorker'[v] = W[v]
    BY <2>1 DEF Workers, WorkerPcs
  <2>3. abWorker'[w].pc = "sleep" /\ abWorker'[w].job = abWorker[w].job /\ abWorker'[w].held = 0
    BY <1>0, <1>1, <2>2 DEF AbTypeOK
  <2>4. OthersWoken(w, abWorker')
    BY <2>2 DEF OthersWoken
  <2>5. PermitsAccounted'
    BY <1>0, <1>1, <2>1, <2>3, <2>4, PermitsMove DEF OthersWoken
  <2>6. abGate'.waiters = Cardinality(Announced') /\ abGate'.waiters \in 0 .. Total
    <3>1. abWorker[w].pc = "acquire" => w \notin Announced
      BY DEF Announced
    <3>2. w \in Announced' <=> Exclusive(abWorker[w].job)
      BY <2>3, <2>4, AnnouncedBy
    <3>3. abWorker[w].pc = "recheck" => (w \in Announced <=> Exclusive(abWorker[w].job))
      BY DEF Announced
    <3>4. Announced' \ {w} = Announced \ {w}
      BY <2>4, AnnouncedBy
    <3>5. CASE abWorker[w].pc = "acquire" /\ Exclusive(abWorker[w].job)
      <4>1. Announced' = Announced \cup {w}
        BY <3>1, <3>2, <3>4, <3>5
      <4> QED BY <1>0, <2>1, <3>1, <3>5, <4>1, WaitersMove
    <3>6. CASE ~(abWorker[w].pc = "acquire" /\ Exclusive(abWorker[w].job))
      <4>1. Announced' = Announced
        BY <3>1, <3>2, <3>3, <3>4, <3>6
      <4> QED BY <1>0, <2>1, <3>6, <4>1, WaitersMove
    <3> QED BY <3>5, <3>6
  <2>7. abGate' \in [available : 0..Total, waiters : 0..Total]
    BY <1>1, <2>1, <2>6
  <2>8. BuildersHold'
    <3> SUFFICES ASSUME NEW v \in Streams
                 PROVE  /\ abWorker'[v].held > 0 <=> abWorker'[v].pc = "build"
                        /\ abWorker'[v].pc = "build" => abWorker'[v].held = Want(abWorker'[v].job)
      BY DEF BuildersHold
    <3>1. CASE v = w
      BY <2>3, <3>1
    <3>2. CASE v # w
      BY <1>0, <2>4, <3>2 DEF BuildersHold, OthersWoken
    <3> QED BY <3>1, <3>2
  <2> QED BY <2>2, <2>3, <2>4, <2>5, <2>6, <2>7, <2>8 DEF OthersWoken
<1>3. CASE ~Blocked(W[w].job, gate)
  <2> DEFINE n == Want(abWorker[w].job)
  <2>0. n \in 1 .. Total /\ n \in {1, Total} /\ n <= abGate.available
    BY <1>1, <1>3, WantsPermits DEF Blocked
  <2>1. /\ abGate' = [available |-> gate.available - n,
                      waiters |-> gate.waiters - IF Exclusive(abWorker[w].job) THEN 1 ELSE 0]
        /\ abWorker' = [W EXCEPT ![w] = Worker("build", abWorker[w].job, n)]
    BY <1>3 DEF TakeOrSleep
  <2> HIDE DEF n
  <2>2. abWorker' \in Workers /\ abWorker'[w] = Worker("build", abWorker[w].job, n)
        /\ \A v \in Streams \ {w} : abWorker'[v] = W[v]
    BY <1>1, <2>0, <2>1 DEF Workers, WorkerPcs, Worker
  <2>3. abWorker'[w].pc = "build" /\ abWorker'[w].job = abWorker[w].job /\ abWorker'[w].held = n
    BY <2>2 DEF Worker
  <2>4. OthersWoken(w, abWorker')
    BY <2>2 DEF OthersWoken
  <2>5. PermitsAccounted'
    <3>1. abGate'.available = abGate.available + abWorker[w].held - abWorker'[w].held
      BY <1>1, <2>0, <2>1, <2>3
    <3> QED BY <1>0, <1>1, <2>0, <2>3, <2>4, <3>1, PermitsMove DEF OthersWoken
  <2>6. abGate'.waiters = Cardinality(Announced') /\ abGate'.waiters \in 0 .. Total
    <3>1. w \notin Announced'
      BY <2>3, <2>4, AnnouncedBy
    <3>2. CASE abWorker[w].pc = "recheck" /\ Exclusive(abWorker[w].job)
      <4>1. w \in Announced /\ Announced' = Announced \ {w} /\ abGate'.waiters = abGate.waiters - 1
        BY <1>1, <2>1, <2>4, <3>1, <3>2, AnnouncedBy
      <4> QED BY <1>0, <4>1, WaitersMove
    <3>3. CASE ~(abWorker[w].pc = "recheck" /\ Exclusive(abWorker[w].job))
      <4>1. w \notin Announced /\ Announced' = Announced /\ abGate'.waiters = abGate.waiters
        <5>1. w \notin Announced
          BY <3>3 DEF Announced
        <5>2. Announced' \ {w} = Announced \ {w}
          BY <2>4, AnnouncedBy
        <5>3. Announced' = Announced
          BY <3>1, <5>1, <5>2
        <5>4. abGate'.waiters = gate.waiters - IF Exclusive(abWorker[w].job) THEN 1 ELSE 0
          BY <2>1
        <5>5. abGate'.waiters = abGate.waiters
          BY <1>1, <3>3, <5>4
        <5> QED BY <5>1, <5>3, <5>5
      <4> QED BY <1>0, <4>1, WaitersMove
    <3> QED BY <3>2, <3>3
  <2>7. abGate' \in [available : 0..Total, waiters : 0..Total]
    BY <1>1, <2>0, <2>1, <2>6
  <2>8. BuildersHold'
    <3> SUFFICES ASSUME NEW v \in Streams
                 PROVE  /\ abWorker'[v].held > 0 <=> abWorker'[v].pc = "build"
                        /\ abWorker'[v].pc = "build" => abWorker'[v].held = Want(abWorker'[v].job)
      BY DEF BuildersHold
    <3>1. CASE v = w
      BY <1>1, <2>0, <2>3, <3>1 DEF n
    <3>2. CASE v # w
      BY <1>0, <2>4, <3>2 DEF BuildersHold, OthersWoken
    <3> QED BY <3>1, <3>2
  <2> QED BY <2>2, <2>3, <2>4, <2>5, <2>6, <2>7, <2>8 DEF OthersWoken
<1> QED BY <1>2, <1>3

\* A step of a worker that does not wait for permits, before or after it.
LEMMA PlainStep ==
    ASSUME AbInv, NEW w \in Streams, abWorker' \in Workers, OthersWoken(w, abWorker'),
           abWorker[w].pc \notin {"sleep", "recheck"}, abWorker'[w].pc \notin {"sleep", "recheck"},
           abGate' = [available |-> abGate'.available, waiters |-> abGate'.waiters],
           abGate'.waiters = abGate.waiters,
           abGate'.available = abGate.available + abWorker[w].held - abWorker'[w].held,
           abWorker'[w].held \in {0, abWorker[w].held},
           abWorker'[w].pc = "build" <=> abWorker'[w].held > 0,
           abWorker'[w].pc = "build" => abWorker'[w].held = Want(abWorker'[w].job)
    PROVE  /\ abGate' \in [available : 0..Total, waiters : 0..Total]
           /\ BuildersHold' /\ PermitsAccounted' /\ abGate'.waiters = Cardinality(Announced')
<1>0. AbTypeOK /\ PermitsAccounted /\ BuildersHold /\ abGate.waiters = Cardinality(Announced)
  BY DEF AbInv
<1>1. /\ Total \in Nat /\ Total >= 1 /\ abGate.available \in 0 .. Total
      /\ abWorker[w].held \in 0 .. Total /\ abWorker'[w].held \in 0 .. Total
  <2>1. Total \in Nat /\ Total >= 1
    BY StreamsCount
  <2>2. abGate.available \in 0 .. Total /\ abWorker[w].held \in 0 .. Total
    BY <1>0 DEF AbTypeOK
  <2> QED BY <2>1, <2>2
<1>2. PermitsAccounted'
  <2>1. CASE abWorker'[w].held = 0
    BY <1>0, <1>1, <2>1, PermitsMove DEF OthersWoken
  <2>2. CASE abWorker'[w].held = abWorker[w].held
    <3>1. \A v \in Streams : abWorker'[v].held = abWorker[v].held
      BY <2>2 DEF OthersWoken
    <3>2. Admitted' = Admitted /\ abGate'.available = abGate.available
      BY <1>1, <2>2, <3>1 DEF Admitted
    <3> QED BY <1>0, <3>1, <3>2 DEF PermitsAccounted
  <2> QED BY <2>1, <2>2
<1>3. abGate'.waiters = Cardinality(Announced') /\ abGate'.waiters \in 0 .. Total
  <2>1. Announced' = Announced
    <3>1. w \notin Announced
      BY DEF Announced
    <3>2. w \notin Announced' /\ Announced' \ {w} = Announced \ {w}
      BY AnnouncedBy
    <3> QED BY <3>1, <3>2
  <2> QED BY <1>0, <2>1, WaitersMove
<1>4. abGate'.available \in 0 .. Total
  <2>1. abGate'.available \in Nat
    BY <1>1
  <2>2. Cardinality(Admitted') \in 0 .. Total
    <3>1. Admitted' \subseteq Streams
      BY DEF Admitted
    <3> QED BY <3>1, StreamsCount
  <2> QED BY <1>1, <1>2, <2>1, <2>2 DEF PermitsAccounted
<1>5. BuildersHold'
  <2> SUFFICES ASSUME NEW v \in Streams
               PROVE  /\ abWorker'[v].held > 0 <=> abWorker'[v].pc = "build"
                      /\ abWorker'[v].pc = "build" => abWorker'[v].held = Want(abWorker'[v].job)
    BY DEF BuildersHold
  <2>1. CASE v = w
    BY <2>1
  <2>2. CASE v # w
    BY <1>0, <2>2 DEF BuildersHold, OthersWoken
  <2> QED BY <2>1, <2>2
<1> QED BY <1>2, <1>3, <1>4, <1>5

\* One worker gets a new state, the others keep theirs.
LEMMA OneWorkerMoves ==
    ASSUME AbTypeOK, NEW w \in Streams, NEW new \in [pc : WorkerPcs, job : Jobs, held : 0..Total],
           abWorker' = [abWorker EXCEPT ![w] = new]
    PROVE  abWorker' \in Workers /\ OthersWoken(w, abWorker') /\ abWorker'[w] = new
           /\ \A v \in Streams \ {w} : abWorker'[v] = abWorker[v]
BY DEF AbTypeOK, Workers, WorkerPcs, OthersWoken

LEMMA ReleaseMoves ==
    ASSUME AbInv, NEW w \in Streams, NEW pc \in {"notifyPrint", "notifyUpgrade", "notifyPanic"},
           NEW job \in Jobs, Release(w, pc, job), abWorker[w].pc = "build"
    PROVE  /\ abWorker' \in Workers /\ OthersWoken(w, abWorker')
           /\ abWorker'[w].pc = pc /\ abWorker'[w].job = job /\ abWorker'[w].held = 0
           /\ abGate' \in [available : 0..Total, waiters : 0..Total]
           /\ BuildersHold' /\ PermitsAccounted' /\ abGate'.waiters = Cardinality(Announced')
<1>0. AbTypeOK
  BY DEF AbInv
<1>1. PICK new \in [pc : WorkerPcs, job : Jobs, held : 0..Total] : new = Worker(pc, job, 0)
  <2>1. 0 \in 0 .. Total
    BY StreamsCount
  <2>2. pc \in WorkerPcs
    BY DEF WorkerPcs
  <2> QED BY <2>1, <2>2 DEF Worker
<1>2. /\ abWorker' \in Workers /\ OthersWoken(w, abWorker') /\ abWorker'[w] = new
      /\ new.pc = pc /\ new.job = job /\ new.held = 0
  BY <1>0, <1>1, OneWorkerMoves DEF Release, Worker
<1>3. /\ abGate' = [available |-> abGate'.available, waiters |-> abGate'.waiters]
      /\ abGate'.waiters = abGate.waiters /\ abGate'.available = abGate.available + abWorker[w].held
  BY <1>0 DEF Release, AbTypeOK
<1>4. abGate.available \in Int /\ abWorker[w].held \in Int
  BY <1>0 DEF AbTypeOK
<1>5. abGate'.available = abGate.available + abWorker[w].held - abWorker'[w].held
  BY <1>2, <1>3, <1>4
<1> QED BY <1>2, <1>3, <1>5, PlainStep

\* What every step of a worker keeps of types and permits.
WorkersFit ==
    /\ abWorker \in Workers
    /\ abGate \in [available : 0..Total, waiters : 0..Total]
    /\ BuildersHold /\ PermitsAccounted /\ abGate.waiters = Cardinality(Announced)

LEMMA WorkerKeepsFit ==
    ASSUME AbInv, NEW w \in Streams, WorkerNext(w)
    PROVE  WorkersFit'
<1>0. AbTypeOK /\ abWorker \in Workers /\ BuildersHold
  BY DEF AbInv, AbTypeOK, Workers, WorkerPcs
<1>w. /\ abWorker[w].job \in Jobs /\ abWorker[w].pc \in WorkerPcs /\ abWorker[w].held \in 0 .. Total
      /\ Total \in Nat /\ Total >= 1
      /\ abWorker[w] = [pc |-> abWorker[w].pc, job |-> abWorker[w].job, held |-> abWorker[w].held]
      /\ abWorker[w].pc # "build" => abWorker[w].held = 0
      /\ abGate = [available |-> abGate.available, waiters |-> abGate.waiters]
      /\ abGate.available \in 0 .. Total /\ abGate.waiters \in 0 .. Total
  <2>1. Total \in Nat /\ Total >= 1
    BY StreamsCount
  <2>2. /\ abWorker[w].job \in Jobs /\ abWorker[w].pc \in WorkerPcs /\ abWorker[w].held \in 0 .. Total
        /\ abWorker[w] = [pc |-> abWorker[w].pc, job |-> abWorker[w].job, held |-> abWorker[w].held]
    BY <1>0 DEF Workers
  <2>3. abWorker[w].pc # "build" => abWorker[w].held = 0
    BY <1>0, <2>2 DEF BuildersHold
  <2>4. /\ abGate = [available |-> abGate.available, waiters |-> abGate.waiters]
        /\ abGate.available \in 0 .. Total /\ abGate.waiters \in 0 .. Total
    BY <1>0 DEF AbTypeOK
  <2> QED BY <2>1, <2>2, <2>3, <2>4
<1>m. ASSUME NEW new \in [pc : WorkerPcs, job : Jobs, held : {0}], abWorker' = [abWorker EXCEPT ![w] = new],
             abWorker[w].pc \notin {"sleep", "recheck", "build"}, new.pc \notin {"sleep", "recheck", "build"},
             UNCHANGED abGate
      PROVE  WorkersFit'
  <2>1. new \in [pc : WorkerPcs, job : Jobs, held : 0..Total] /\ new.held = 0
    BY <1>w
  <2>2. abWorker' \in Workers /\ OthersWoken(w, abWorker') /\ abWorker'[w] = new
    BY <1>0, <1>m, <2>1, OneWorkerMoves
  <2>3. abGate'.available = abGate.available + abWorker[w].held - abWorker'[w].held
    BY <1>w, <1>m, <2>1, <2>2
  <2>4. abGate' = [available |-> abGate'.available, waiters |-> abGate'.waiters]
        /\ abGate'.waiters = abGate.waiters
    BY <1>w, <1>m
  <2>5. /\ abWorker'[w].pc \notin {"sleep", "recheck", "build"} /\ abWorker'[w].held = 0
        /\ ~(abWorker'[w].held > 0)
    BY <1>m, <2>1, <2>2
  <2>6. BuildersHold' /\ PermitsAccounted' /\ abGate'.waiters = Cardinality(Announced')
    BY <1>m, <2>2, <2>3, <2>4, <2>5, PlainStep
  <2>7. abGate' \in [available : 0..Total, waiters : 0..Total]
    BY <1>w, <1>m
  <2> QED BY <2>2, <2>6, <2>7 DEF WorkersFit
<1>1. CASE OpenDevice(w) \/ WorkerEnds(w)
  <2>1. PICK pc \in {"receive", "ended"} : abWorker' = [abWorker EXCEPT ![w].pc = pc]
    BY <1>1 DEF OpenDevice, WorkerEnds
  <2>2. abWorker[w].pc \in {"open", "receive"} /\ UNCHANGED abGate
    BY <1>1 DEF OpenDevice, WorkerEnds
  <2>3. PICK new \in [pc : WorkerPcs, job : Jobs, held : {0}] : new = [abWorker[w] EXCEPT !.pc = pc]
    BY <1>w, <2>2 DEF WorkerPcs
  <2>4. abWorker' = [abWorker EXCEPT ![w] = new] /\ new.pc = pc
    BY <1>w, <2>1, <2>3
  <2> QED BY <1>m, <2>2, <2>4
<1>2. CASE Receive(w)
  <2>1. Head(abChannel) \in Jobs
    BY <1>0, <1>2 DEF Receive, AbTypeOK
  <2>2. PICK new \in [pc : WorkerPcs, job : Jobs, held : {0}] :
            new = Worker("acquire", Head(abChannel), 0)
    BY <2>1 DEF Worker, WorkerPcs
  <2>3. abWorker' = [abWorker EXCEPT ![w] = new] /\ new.pc = "acquire" /\ abWorker[w].pc = "receive"
        /\ UNCHANGED abGate
    BY <1>2, <2>2 DEF Receive, Worker
  <2> QED BY <1>m, <2>3
<1>3. CASE PrintResult(w)
  <2>1. PICK new \in [pc : WorkerPcs, job : Jobs, held : {0}] : new = Worker("receive", NoJob, 0)
    BY DEF Worker, WorkerPcs, Jobs
  <2>2. abWorker' = [abWorker EXCEPT ![w] = new] /\ new.pc = "receive" /\ abWorker[w].pc = "print"
        /\ UNCHANGED abGate
    BY <1>3, <2>1 DEF PrintResult, Worker
  <2> QED BY <1>m, <2>2
<1>4. CASE Notify(w)
  <2>1. PICK pc \in {"print", "acquire", "panicked"} : abWorker' = [Woken(abWorker) EXCEPT ![w].pc = pc]
    BY <1>4 DEF Notify
  <2>2. abWorker[w].pc \notin {"sleep", "recheck", "build"} /\ UNCHANGED abGate
    BY <1>4 DEF Notify
  <2>3. Woken(abWorker) \in Workers /\ OthersWoken(w, Woken(abWorker)) /\ Woken(abWorker)[w] = abWorker[w]
    BY <1>0, <2>2, WokenIs
  <2>4. abWorker' \in Workers /\ OthersWoken(w, abWorker')
    BY <2>1, <2>3 DEF Workers, WorkerPcs, OthersWoken
  <2>5. abWorker'[w].pc = pc /\ abWorker'[w].held = 0
    BY <1>w, <2>1, <2>2, <2>3 DEF Workers
  <2>6. abGate'.available = abGate.available + abWorker[w].held - abWorker'[w].held
    BY <1>w, <2>2, <2>5
  <2> QED BY <1>w, <2>2, <2>4, <2>5, <2>6, PlainStep DEF WorkersFit
<1>5. CASE Built(w)
  <2>1. Release(w, "notifyPrint", abWorker[w].job) /\ abWorker[w].pc = "build"
    BY <1>5 DEF Built
  <2> QED BY <1>w, <2>1, ReleaseMoves DEF WorkersFit
<1>6. CASE FallBack(w)
  <2>1. PICK job \in Jobs : job = Job(abWorker[w].job.cell, "chunked")
    BY <1>w, <1>6 DEF FallBack, Jobs, NoJob, Job, Kinds
  <2>2. abWorker[w].pc = "build"
    BY <1>6 DEF FallBack
  <2>3. CASE abWorker[w].held < Total
    <3>1. Release(w, "notifyUpgrade", job)
      BY <1>6, <2>1, <2>3 DEF FallBack
    <3> QED BY <2>2, <3>1, ReleaseMoves DEF WorkersFit
  <2>4. CASE ~(abWorker[w].held < Total)
    <3>1. abWorker' = [abWorker EXCEPT ![w].job = job] /\ UNCHANGED abGate
      BY <1>6, <2>1, <2>4 DEF FallBack
    <3>2. PICK new \in [pc : WorkerPcs, job : Jobs, held : 0..Total] : new = [abWorker[w] EXCEPT !.job = job]
      BY <1>w
    <3>3. abWorker' = [abWorker EXCEPT ![w] = new] /\ new.pc = "build" /\ new.held = Total /\ new.job = job
      BY <1>w, <2>2, <2>4, <3>1, <3>2
    <3>4. abWorker' \in Workers /\ OthersWoken(w, abWorker') /\ abWorker'[w] = new
      BY <1>0, <3>3, OneWorkerMoves
    <3>5. abGate'.available = abGate.available + abWorker[w].held - abWorker'[w].held
          /\ abWorker'[w].held = abWorker[w].held
      BY <1>w, <2>4, <3>1, <3>3, <3>4
    <3>6. Want(job) = Total
      BY <2>1 DEF Want, Job
    <3>7. /\ abWorker'[w].pc = "build" /\ abWorker'[w].held > 0
          /\ abWorker'[w].held = Want(abWorker'[w].job)
      BY <1>w, <3>3, <3>4, <3>6
    <3>8. abGate' = [available |-> abGate'.available, waiters |-> abGate'.waiters]
          /\ abGate'.waiters = abGate.waiters
      BY <1>w, <3>1
    <3>9. BuildersHold' /\ PermitsAccounted' /\ abGate'.waiters = Cardinality(Announced')
      BY <2>2, <3>4, <3>5, <3>7, <3>8, PlainStep
    <3>10. abGate' \in [available : 0..Total, waiters : 0..Total]
      BY <1>w, <3>1
    <3> QED BY <3>4, <3>9, <3>10 DEF WorkersFit
  <2> QED BY <2>3, <2>4
<1>7. CASE Panic(w)
  <2>1. CASE abWorker[w].held > 0
    <3>1. Release(w, "notifyPanic", abWorker[w].job) /\ abWorker[w].pc = "build"
      BY <1>0, <1>7, <2>1 DEF Panic, BuildersHold
    <3> QED BY <1>w, <3>1, ReleaseMoves DEF WorkersFit
  <2>2. CASE ~(abWorker[w].held > 0)
    <3>1. abWorker' = [abWorker EXCEPT ![w].pc = "panicked"] /\ UNCHANGED abGate
          /\ abWorker[w].pc \in {"open", "print"} /\ abWorker[w].held = 0
      BY <1>0, <1>w, <1>7, <2>2 DEF Panic, BuildersHold
    <3>2. PICK new \in [pc : WorkerPcs, job : Jobs, held : {0}] : new = [abWorker[w] EXCEPT !.pc = "panicked"]
      BY <1>w, <3>1 DEF WorkerPcs
    <3>3. abWorker' = [abWorker EXCEPT ![w] = new] /\ new.pc = "panicked"
      BY <1>w, <3>1, <3>2
    <3> QED BY <1>m, <3>1, <3>3
  <2> QED BY <2>1, <2>2
<1>8. CASE BuildIsFatal(w)
  BY <1>0, <1>8 DEF BuildIsFatal, AbInv, AbTypeOK, WorkersFit, BuildersHold, PermitsAccounted,
     Admitted, Announced
<1>9. CASE Acquire(w)
  <2>1. abWorker[w].pc = "acquire"
    BY <1>9 DEF Acquire
  <2>2. CASE Exclusive(abWorker[w].job)
    <3>1. PICK gate : gate = [abGate EXCEPT !.waiters = @ + 1]
      OBVIOUS
    <3>2. gate = [available |-> gate.available, waiters |-> gate.waiters]
          /\ gate.available = abGate.available /\ gate.waiters = abGate.waiters + 1
      BY <1>w, <3>1
    <3>3. TakeOrSleep(w, Woken(abWorker), gate)
      BY <1>9, <2>2, <3>1 DEF Acquire
    <3>4. Woken(abWorker) \in Workers /\ OthersWoken(w, Woken(abWorker)) /\ Woken(abWorker)[w] = abWorker[w]
      BY <1>0, <2>1, WokenIs
    <3> QED BY <2>1, <2>2, <3>2, <3>3, <3>4, TakeStep DEF WorkersFit
  <2>3. CASE ~Exclusive(abWorker[w].job)
    <3>1. TakeOrSleep(w, abWorker, abGate)
      BY <1>9, <2>3 DEF Acquire
    <3>2. OthersWoken(w, abWorker)
      BY DEF OthersWoken
    <3> QED BY <1>0, <1>w, <2>1, <2>3, <3>1, <3>2, TakeStep DEF WorkersFit
  <2> QED BY <2>2, <2>3
<1>10. CASE Recheck(w)
  <2>1. TakeOrSleep(w, abWorker, abGate) /\ abWorker[w].pc = "recheck"
    BY <1>10 DEF Recheck
  <2>2. OthersWoken(w, abWorker)
    BY DEF OthersWoken
  <2> QED BY <1>0, <1>w, <2>1, <2>2, TakeStep DEF WorkersFit
<1> QED BY <1>1, <1>2, <1>3, <1>4, <1>5, <1>6, <1>7, <1>8, <1>9, <1>10 DEF WorkerNext

LEMMA NoCellIsNone == NoJob.cell = NoCell /\ NoJob.kind = "none" /\ NoCell \notin AirCells
                      /\ (\A job \in Jobs : job.kind \in Kinds => job.cell \in AirCells)
                      /\ (\A job \in Jobs : job.cell \in AirCells \cup {NoCell})
BY AirborneAssumption DEF NoJob, Job, Jobs, AirborneAssumption, Kinds

LEMMA KeepsAbTypes == ASSUME AbInv, AbNext PROVE AbTypeOK' /\ WorkersFit'
<1>0. AbTypeOK /\ HandsEmpty
  BY DEF AbInv
<1>f. WorkersFit
  BY DEF AbInv, WorkersFit, AbTypeOK, Workers, WorkerPcs
<1>w. ASSUME UNCHANGED <<abWorker, abGate>> PROVE WorkersFit'
  BY <1>f, <1>w DEF WorkersFit, BuildersHold, PermitsAccounted, Admitted, Announced
<1>t. ASSUME WorkersFit',
             abQueue' \in Seq(AirCells), abClosed' \in BOOLEAN,
             abReader' \in {"read", "notify", "notifyLast", "joining"},
             abPrep' \in [pc : {"pull", "sleep", "prepare", "send", "ended"},
                          run : Seq(AirCells), job : Jobs],
             Len(abChannel') <= 1, abChannel' \in Seq(Jobs),
             abOpen' \subseteq AirCells, abFatal' \in BOOLEAN
      PROVE  AbTypeOK' /\ WorkersFit'
  BY <1>t DEF AbTypeOK, WorkersFit, Workers, WorkerPcs
<1> USE <1>0 DEF AbTypeOK
<1>1. CASE \E c \in AirCells : ReadCell(c)
  BY <1>1, <1>w, <1>t DEF ReadCell
<1>2. CASE CloseInput
  BY <1>2, <1>w, <1>t DEF CloseInput
<1>3. CASE NotifyPrep
  BY <1>3, <1>w, <1>t DEF NotifyPrep
<1>4. CASE Pull
  <2>1. CASE abQueue # <<>>
    <3>1. PICK take : take = IF Len(abQueue) < PullBatch THEN Len(abQueue) ELSE PullBatch
      OBVIOUS
    <3>2. take \in Nat /\ take <= Len(abQueue)
      <4>1. Len(abQueue) \in Nat /\ PullBatch \in Nat
        BY AirborneAssumption DEF AirborneAssumption
      <4> QED BY <3>1, <4>1
    <3>3. /\ abPrep' = [abPrep EXCEPT !.pc = "prepare", !.run = SubSeq(abQueue, 1, take)]
          /\ abQueue' = SubSeq(abQueue, take + 1, Len(abQueue))
      BY <1>4, <2>1, <3>1 DEF Pull
    <3>4. SubSeq(abQueue, 1, take) \in Seq(AirCells) /\ SubSeq(abQueue, take + 1, Len(abQueue)) \in Seq(AirCells)
      BY <3>2
    <3> QED BY <1>4, <1>w, <1>t, <3>3, <3>4 DEF Pull
  <2>2. CASE abQueue = <<>>
    BY <1>4, <1>w, <1>t, <2>2 DEF Pull
  <2> QED BY <2>1, <2>2
<1>5. CASE PrepareCell
  <2>1. abPrep.run # <<>> /\ Head(abPrep.run) \in AirCells /\ Tail(abPrep.run) \in Seq(AirCells)
    BY <1>5 DEF PrepareCell, HandsEmpty
  <2>2. PICK kind \in Kinds : abPrep' = [pc |-> "send", run |-> Tail(abPrep.run), job |-> Job(Head(abPrep.run), kind)]
    BY <1>5 DEF PrepareCell, Kinds
  <2>3. Job(Head(abPrep.run), kind) \in Jobs
    BY <2>1, <2>2 DEF Jobs, Job
  <2> QED BY <1>5, <1>w, <1>t, <2>1, <2>2, <2>3 DEF PrepareCell
<1>6. CASE SendPrepared
  <2>1. <<abPrep.job>> \in Seq(Jobs) /\ Len(<<abPrep.job>>) <= 1 /\ NoJob \in Jobs
    BY DEF Jobs
  <2> QED BY <1>6, <1>w, <1>t, <2>1 DEF SendPrepared
<1>7. ASSUME NEW w \in Streams, WorkerNext(w) PROVE AbTypeOK' /\ WorkersFit'
  <2>1. WorkersFit'
    BY <1>7, WorkerKeepsFit
  <2>2. CASE Receive(w)
    BY <1>t, <2>1, <2>2 DEF Receive
  <2>3. CASE ~Receive(w)
    BY <1>7, <1>t, <2>1, <2>3 DEF WorkerNext, OpenDevice, WorkerEnds, Acquire, Recheck, Notify, Built,
       FallBack, BuildIsFatal, PrintResult, Panic
  <2> QED BY <2>2, <2>3
<1> QED BY <1>1, <1>2, <1>3, <1>4, <1>5, <1>6, <1>7 DEF AbNext, PrepNext

\* Whatever a worker does but to receive or to print, its cell stays its own.
LEMMA WorkerCells ==
    ASSUME AbInv, NEW w \in Streams, WorkerNext(w), ~Receive(w), ~PrintResult(w)
    PROVE  /\ \A v \in Streams : abWorker'[v].job.cell = abWorker[v].job.cell
           /\ UNCHANGED <<abQueue, abPrep, abChannel, abOpen>>
           /\ \A v \in Streams : abWorker'[v].pc \in {"open", "receive", "ended"} => abWorker'[v].job = NoJob
<1>0. AbTypeOK /\ HandsEmpty /\ abWorker \in Workers
  BY DEF AbInv, AbTypeOK, Workers, WorkerPcs
<1>1. UNCHANGED <<abQueue, abPrep, abChannel, abOpen>>
  BY DEF WorkerNext, OpenDevice, WorkerEnds, Acquire, Recheck, Notify, Built,
     FallBack, BuildIsFatal, PrintResult, Panic
<1>2. CASE OpenDevice(w) \/ WorkerEnds(w) \/ BuildIsFatal(w)
  BY <1>0, <1>1, <1>2 DEF OpenDevice, WorkerEnds, BuildIsFatal, HandsEmpty, Workers
<1>3. CASE Acquire(w) \/ Recheck(w)
  <2>1. PICK W, gate : W \in {abWorker, Woken(abWorker)} /\ TakeOrSleep(w, W, gate)
    BY <1>3 DEF Acquire, Recheck
  <2>2. W \in Workers /\ \A v \in Streams : W[v].job = abWorker[v].job
                             /\ (W[v].pc = abWorker[v].pc \/ W[v].pc = "recheck")
    <3>1. Woken(abWorker) \in Workers
      BY <1>0, WokenIs
    <3>2. \A v \in Streams : Woken(abWorker)[v].job = abWorker[v].job
              /\ (Woken(abWorker)[v].pc = abWorker[v].pc \/ Woken(abWorker)[v].pc = "recheck")
      BY <1>0 DEF Woken, Workers
    <3> QED BY <1>0, <2>1, <3>1, <3>2
  <2>3. \A v \in Streams : /\ abWorker'[v].job = W[v].job
                           /\ abWorker'[v].pc = W[v].pc \/ abWorker'[v].pc \in {"sleep", "build"}
    BY <2>1, <2>2 DEF TakeOrSleep, Workers, Worker
  <2> QED BY <1>0, <1>1, <2>2, <2>3 DEF HandsEmpty
<1>4. CASE Notify(w)
  <2>1. PICK pc \in {"print", "acquire", "panicked"} : abWorker' = [Woken(abWorker) EXCEPT ![w].pc = pc]
    BY <1>4 DEF Notify
  <2>2. Woken(abWorker) \in Workers /\ \A v \in Streams : Woken(abWorker)[v].job = abWorker[v].job
                             /\ (Woken(abWorker)[v].pc = abWorker[v].pc \/ Woken(abWorker)[v].pc = "recheck")
    BY <1>0, WokenIs DEF OthersWoken, Woken, Workers
  <2>3. \A v \in Streams : /\ abWorker'[v].job = Woken(abWorker)[v].job
                           /\ abWorker'[v].pc = Woken(abWorker)[v].pc \/ abWorker'[v].pc = pc
    BY <2>1, <2>2 DEF Workers
  <2> QED BY <1>0, <1>1, <2>2, <2>3 DEF HandsEmpty
<1>5. CASE Built(w) \/ FallBack(w) \/ Panic(w)
  <2>1. /\ abWorker' \in [Streams -> [pc : WorkerPcs, job : Jobs, held : 0..Total]]
        /\ abWorker'[w].job.cell = abWorker[w].job.cell
        /\ abWorker'[w].pc \notin {"open", "receive", "ended"}
        /\ \A v \in Streams : v # w => abWorker'[v] = abWorker[v]
    <3>0. /\ WorkersFit'
          /\ Job(abWorker[w].job.cell, "chunked").cell = abWorker[w].job.cell
      BY WorkerKeepsFit DEF Job
    <3>1. CASE Built(w)
      BY <1>0, <3>0, <3>1 DEF Built, Release, Worker, Workers, WorkersFit
    <3>2. CASE FallBack(w)
      BY <1>0, <3>0, <3>2 DEF FallBack, Release, Worker, Workers, WorkersFit
    <3>3. CASE Panic(w)
      BY <1>0, <3>0, <3>3 DEF Panic, Release, Worker, Workers, WorkersFit
    <3> QED BY <1>5, <3>1, <3>2, <3>3
  <2>2. \A v \in Streams : abWorker'[v].job.cell = abWorker[v].job.cell
    BY <2>1
  <2>3. \A v \in Streams : abWorker'[v].pc \in {"open", "receive", "ended"} => abWorker'[v].job = NoJob
    BY <1>0, <2>1 DEF HandsEmpty
  <2> QED BY <1>1, <2>2, <2>3
<1> QED BY <1>2, <1>3, <1>4, <1>5 DEF WorkerNext

LEMMA KeepsHands == ASSUME AbInv, AbNext PROVE HandsEmpty'
<1>0. AbTypeOK /\ HandsEmpty /\ AbTypeOK'
  BY KeepsAbTypes DEF AbInv
<1> USE <1>0 DEF HandsEmpty
<1>1. CASE (\E c \in AirCells : ReadCell(c)) \/ CloseInput
  BY <1>1 DEF ReadCell, CloseInput
<1>2. CASE NotifyPrep
  <2>1. abPrep'.run = abPrep.run /\ abPrep'.job = abPrep.job /\ UNCHANGED abWorker
        /\ (abPrep'.pc = abPrep.pc \/ (abPrep.pc = "sleep" /\ abPrep'.pc = "pull"))
    BY <1>2 DEF NotifyPrep, AbTypeOK
  <2> QED BY <2>1
<1>3. CASE Pull
  <2>0. UNCHANGED abWorker /\ abPrep.pc = "pull" /\ abPrep.run = <<>> /\ abPrep.job = NoJob
    BY <1>3 DEF Pull
  <2>1. CASE abQueue # <<>>
    <3>1. PICK take : take = IF Len(abQueue) < PullBatch THEN Len(abQueue) ELSE PullBatch
      OBVIOUS
    <3>2. take \in 1 .. Len(abQueue)
      <4>1. Len(abQueue) \in Nat /\ PullBatch \in Nat /\ PullBatch > 0 /\ Len(abQueue) > 0
        BY <2>1, AirborneAssumption DEF AirborneAssumption, AbTypeOK
      <4> QED BY <3>1, <4>1
    <3>3. abPrep' = [abPrep EXCEPT !.pc = "prepare", !.run = SubSeq(abQueue, 1, take)]
      BY <1>3, <2>1, <3>1 DEF Pull
    <3>4. Len(SubSeq(abQueue, 1, take)) = take
      BY <3>2 DEF AbTypeOK
    <3>5. abPrep'.pc = "prepare" /\ abPrep'.run # <<>> /\ abPrep'.job = NoJob
      BY <2>0, <3>2, <3>3, <3>4 DEF AbTypeOK
    <3> QED BY <2>0, <3>5
  <2>2. CASE abQueue = <<>>
    <3>1. abPrep'.run = <<>> /\ abPrep'.job = NoJob /\ abPrep'.pc \in {"ended", "sleep"}
      BY <1>3, <2>0, <2>2 DEF Pull, AbTypeOK
    <3> QED BY <2>0, <3>1
  <2> QED BY <2>1, <2>2
<1>4. CASE PrepareCell
  <2>1. abPrep'.pc = "send" /\ UNCHANGED abWorker
    BY <1>4 DEF PrepareCell
  <2> QED BY <2>1
<1>5. CASE SendPrepared
  <2>1. /\ abPrep'.pc = IF abPrep.run = <<>> THEN "pull" ELSE "prepare"
        /\ abPrep'.run = abPrep.run /\ abPrep'.job = NoJob /\ UNCHANGED abWorker
    BY <1>5 DEF SendPrepared
  <2> QED BY <2>1
<1>6. ASSUME NEW w \in Streams, WorkerNext(w) PROVE HandsEmpty'
  <2>1. CASE Receive(w)
    <3>1. abWorker' = [abWorker EXCEPT ![w] = Worker("acquire", Head(abChannel), 0)] /\ UNCHANGED abPrep
      BY <2>1 DEF Receive
    <3>2. abWorker'[w].pc = "acquire" /\ \A v \in Streams : v # w => abWorker'[v] = abWorker[v]
      BY <3>1 DEF AbTypeOK, Worker
    <3> QED BY <3>1, <3>2
  <2>2. CASE PrintResult(w)
    <3>1. abWorker' = [abWorker EXCEPT ![w] = Worker("receive", NoJob, 0)] /\ UNCHANGED abPrep
      BY <2>2 DEF PrintResult
    <3>2. abWorker'[w].job = NoJob /\ \A v \in Streams : v # w => abWorker'[v] = abWorker[v]
      BY <3>1 DEF AbTypeOK, Worker
    <3> QED BY <3>1, <3>2
  <2>3. CASE ~Receive(w) /\ ~PrintResult(w)
    <3>1. UNCHANGED abPrep /\ \A v \in Streams : abWorker'[v].pc \in {"open", "receive", "ended"} => abWorker'[v].job = NoJob
      BY <1>6, <2>3, WorkerCells
    <3> QED BY <3>1
  <2> QED BY <2>1, <2>2, <2>3
<1> QED BY <1>1, <1>2, <1>3, <1>4, <1>5, <1>6 DEF AbNext, PrepNext

QueueOnce == \A i, j \in DOMAIN abQueue : abQueue[i] = abQueue[j] => i = j
RunOnce == \A i, j \in DOMAIN abPrep.run : abPrep.run[i] = abPrep.run[j] => i = j
HandsApart ==
    \A w, v \in Streams : abWorker[w].job.cell = abWorker[v].job.cell /\ w # v =>
        abWorker[w].job.cell = NoCell

LEMMA ReaderKeepsPlaces ==
    ASSUME AbInv, NEW c \in AirCells, ReadCell(c)
    PROVE  NoneTwice' /\ OnePlace'
<1>0. AbTypeOK /\ QueueOnce /\ RunOnce /\ HandsApart /\ OnePlace
  BY DEF AbInv, NoneTwice, QueueOnce, RunOnce, HandsApart
<1>1. abQueue' = Append(abQueue, c) /\ abOpen' = abOpen \cup {c} /\ c \notin abOpen
      /\ UNCHANGED <<abPrep, abChannel, abWorker>>
  BY DEF ReadCell
<1>2. DOMAIN abQueue' = 1 .. Len(abQueue) + 1 /\ DOMAIN abQueue = 1 .. Len(abQueue)
      /\ Len(abQueue) \in Nat /\ abQueue'[Len(abQueue) + 1] = c
      /\ \A i \in 1 .. Len(abQueue) : abQueue'[i] = abQueue[i]
  BY <1>0, <1>1 DEF AbTypeOK
<1>3. ASSUME NEW d PROVE InQueue(d)' <=> InQueue(d) \/ d = c
  BY <1>2 DEF InQueue
<1>4. ~InQueue(c) /\ ~InRun(c) /\ ~InPrep(c) /\ ~OnWay(c) /\ ~InWorker(c)
  BY <1>0, <1>1 DEF OnePlace
<1>5. QueueOnce'
  BY <1>0, <1>2, <1>4 DEF QueueOnce, InQueue
<1>6. NoneTwice'
  BY <1>0, <1>1, <1>5 DEF NoneTwice, QueueOnce, RunOnce, HandsApart
<1>7. ASSUME NEW d
      PROVE  /\ InRun(d)' <=> InRun(d)
             /\ InPrep(d)' <=> InPrep(d)
             /\ OnWay(d)' <=> OnWay(d)
             /\ InWorker(d)' <=> InWorker(d)
  BY <1>1 DEF InRun, InPrep, OnWay, InWorker
<1>8. OnePlace'
  BY <1>0, <1>1, <1>3, <1>4, <1>7 DEF OnePlace
<1> QED BY <1>6, <1>8

LEMMA PullKeepsPlaces == ASSUME AbInv, Pull PROVE NoneTwice' /\ OnePlace'
<1>0. AbTypeOK /\ QueueOnce /\ RunOnce /\ HandsApart /\ OnePlace
  BY DEF AbInv, NoneTwice, QueueOnce, RunOnce, HandsApart
<1>1. abPrep.run = <<>> /\ UNCHANGED <<abChannel, abWorker, abOpen>>
  BY DEF AbInv, HandsEmpty, Pull
<1>2. CASE abQueue # <<>>
  <2>1. PICK take : take = IF Len(abQueue) < PullBatch THEN Len(abQueue) ELSE PullBatch
    OBVIOUS
  <2>2. take \in Nat /\ take <= Len(abQueue) /\ Len(abQueue) \in Nat
    <3>1. Len(abQueue) \in Nat /\ PullBatch \in Nat
      BY <1>0, AirborneAssumption DEF AirborneAssumption, AbTypeOK
    <3> QED BY <2>1, <3>1
  <2>3. abPrep' = [abPrep EXCEPT !.pc = "prepare", !.run = SubSeq(abQueue, 1, take)]
        /\ abQueue' = SubSeq(abQueue, take + 1, Len(abQueue))
    BY <1>2, <2>1 DEF Pull
  <2>4. abPrep'.run = SubSeq(abQueue, 1, take) /\ abPrep'.job = abPrep.job
    BY <1>0, <2>3 DEF AbTypeOK
  <2>5. DOMAIN abPrep'.run = 1 .. take /\ \A i \in 1 .. take : abPrep'.run[i] = abQueue[i]
    BY <1>0, <2>2, <2>4 DEF AbTypeOK
  <2>6. /\ DOMAIN abQueue' = 1 .. Len(abQueue) - take /\ DOMAIN abQueue = 1 .. Len(abQueue)
        /\ \A i \in 1 .. Len(abQueue) - take : abQueue'[i] = abQueue[i + take]
    BY <1>0, <2>2, <2>3 DEF AbTypeOK
  <2>7. QueueOnce'
    BY <1>0, <2>2, <2>6 DEF QueueOnce
  <2>8. RunOnce'
    BY <1>0, <2>2, <2>5, <2>6 DEF QueueOnce, RunOnce
  <2>9. ASSUME NEW d
        PROVE  /\ InQueue(d) <=> InQueue(d)' \/ InRun(d)'
               /\ ~(InQueue(d)' /\ InRun(d)')
    <3>1. InQueue(d)' <=> \E i \in take + 1 .. Len(abQueue) : abQueue[i] = d
      <4>1. ASSUME NEW i \in take + 1 .. Len(abQueue), abQueue[i] = d PROVE InQueue(d)'
        <5>1. i - take \in 1 .. Len(abQueue) - take /\ (i - take) + take = i
          BY <2>2
        <5>2. abQueue'[i - take] = d
          BY <2>6, <4>1, <5>1
        <5> QED BY <2>6, <5>1, <5>2 DEF InQueue
      <4>2. ASSUME InQueue(d)' PROVE \E i \in take + 1 .. Len(abQueue) : abQueue[i] = d
        <5>1. PICK i \in 1 .. Len(abQueue) - take : abQueue'[i] = d
          BY <2>6, <4>2 DEF InQueue
        <5>2. i + take \in take + 1 .. Len(abQueue) /\ abQueue[i + take] = d
          BY <2>2, <2>6, <5>1
        <5> QED BY <5>2
      <4> QED BY <4>1, <4>2
    <3>2. InRun(d)' <=> \E i \in 1 .. take : abQueue[i] = d
      BY <2>5 DEF InRun
    <3>3. InQueue(d) <=> \E i \in 1 .. Len(abQueue) : abQueue[i] = d
      BY <2>6 DEF InQueue
    <3>4. 1 .. Len(abQueue) = (1 .. take) \cup (take + 1 .. Len(abQueue))
      BY <2>2
    <3>5. \A i \in 1 .. take, j \in take + 1 .. Len(abQueue) : abQueue[i] # abQueue[j]
      BY <1>0, <2>2, <2>6 DEF QueueOnce
    <3> QED BY <3>1, <3>2, <3>3, <3>4, <3>5
  <2>10. ASSUME NEW d
         PROVE  /\ ~InRun(d)
                /\ InPrep(d)' <=> InPrep(d)
                /\ OnWay(d)' <=> OnWay(d)
                /\ InWorker(d)' <=> InWorker(d)
    BY <1>1, <2>4 DEF InRun, InPrep, OnWay, InWorker
  <2>11. OnePlace'
    BY <1>0, <1>1, <2>9, <2>10 DEF OnePlace
  <2>12. HandsApart'
    BY <1>0, <1>1 DEF HandsApart
  <2> QED BY <2>7, <2>8, <2>11, <2>12 DEF NoneTwice, QueueOnce, RunOnce, HandsApart
<1>3. CASE abQueue = <<>>
  <2>1. abPrep'.run = abPrep.run /\ abPrep'.job = abPrep.job /\ UNCHANGED abQueue
    BY <1>0, <1>3 DEF Pull, AbTypeOK
  <2> QED BY <1>0, <1>1, <2>1 DEF NoneTwice, QueueOnce, RunOnce, HandsApart, OnePlace,
             InQueue, InRun, InPrep, OnWay, InWorker
<1> QED BY <1>2, <1>3

LEMMA PrepKeepsPlaces == ASSUME AbInv, PrepareCell \/ SendPrepared PROVE NoneTwice' /\ OnePlace'
<1>0. AbTypeOK /\ QueueOnce /\ RunOnce /\ HandsApart /\ OnePlace /\ HandsEmpty
  BY DEF AbInv, NoneTwice, QueueOnce, RunOnce, HandsApart
<1>n. NoJob.cell = NoCell /\ NoCell \notin AirCells
  BY NoCellIsNone
<1>1. CASE PrepareCell
  <2>1. /\ abPrep.run # <<>> /\ abPrep.job = NoJob /\ UNCHANGED <<abQueue, abChannel, abWorker, abOpen>>
        /\ abPrep'.run = Tail(abPrep.run) /\ abPrep'.job.cell = Head(abPrep.run)
    BY <1>0, <1>1 DEF PrepareCell, HandsEmpty, Job
  <2> DEFINE n == Len(abPrep.run)
  <2>2. n \in Nat /\ n >= 1 /\ DOMAIN abPrep.run = 1 .. n /\ DOMAIN abPrep'.run = 1 .. n - 1
        /\ Head(abPrep.run) = abPrep.run[1] /\ abPrep.run[1] \in AirCells
        /\ \A i \in 1 .. n - 1 : abPrep'.run[i] = abPrep.run[i + 1]
    BY <1>0, <2>1 DEF AbTypeOK
  <2> HIDE DEF n
  <2>h. PICK h \in AirCells : h = abPrep.run[1]
    BY <2>2
  <2>3. RunOnce'
    <3> SUFFICES ASSUME NEW i \in 1 .. n - 1, NEW j \in 1 .. n - 1, abPrep'.run[i] = abPrep'.run[j]
                 PROVE  i = j
      BY <2>2 DEF RunOnce
    <3>1. i + 1 \in 1 .. n /\ j + 1 \in 1 .. n /\ abPrep.run[i + 1] = abPrep.run[j + 1]
      BY <2>2
    <3>2. i + 1 = j + 1
      BY <1>0, <2>2, <3>1 DEF RunOnce
    <3> QED BY <3>2
  <2>4. ASSUME NEW d PROVE InRun(d) <=> InRun(d)' \/ d = h
    <3>1. ASSUME InRun(d)' PROVE InRun(d)
      <4>1. PICK i \in 1 .. n - 1 : abPrep'.run[i] = d
        BY <2>2, <3>1 DEF InRun
      <4>2. i + 1 \in 1 .. n /\ abPrep.run[i + 1] = d
        BY <2>2, <4>1
      <4> QED BY <2>2, <4>2 DEF InRun
    <3>2. ASSUME InRun(d), d # h PROVE InRun(d)'
      <4>1. PICK i \in 1 .. n : abPrep.run[i] = d
        BY <2>2, <3>2 DEF InRun
      <4>2. i - 1 \in 1 .. n - 1 /\ (i - 1) + 1 = i
        BY <2>2, <2>h, <3>2, <4>1
      <4>3. abPrep'.run[i - 1] = d
        BY <2>2, <4>1, <4>2
      <4> QED BY <2>2, <4>2, <4>3 DEF InRun
    <3>3. InRun(h)
      BY <2>2, <2>h DEF InRun
    <3> QED BY <3>1, <3>2, <3>3
  <2>5. ~InRun(h)'
    <3> SUFFICES ASSUME NEW i \in 1 .. n - 1, abPrep'.run[i] = h PROVE FALSE
      BY <2>2 DEF InRun
    <3>1. i + 1 \in 1 .. n /\ 1 \in 1 .. n /\ abPrep.run[i + 1] = abPrep.run[1] /\ i + 1 # 1
      BY <2>2, <2>h
    <3> QED BY <1>0, <2>2, <3>1 DEF RunOnce
  <2>6. ASSUME NEW d \in AirCells
        PROVE  /\ InQueue(d)' <=> InQueue(d)
               /\ ~InPrep(d)
               /\ InPrep(d)' <=> d = h
               /\ OnWay(d)' <=> OnWay(d)
               /\ InWorker(d)' <=> InWorker(d)
    BY <1>n, <2>1, <2>2, <2>h DEF InQueue, InPrep, OnWay, InWorker
  <2>7. OnePlace'
    BY <1>0, <2>1, <2>4, <2>5, <2>6 DEF OnePlace
  <2>8. QueueOnce' /\ HandsApart'
    BY <1>0, <2>1 DEF QueueOnce, HandsApart
  <2> QED BY <2>3, <2>7, <2>8 DEF NoneTwice, QueueOnce, RunOnce, HandsApart
<1>2. CASE SendPrepared
  <2>1. /\ abPrep'.run = abPrep.run /\ abPrep'.job = NoJob /\ abChannel = <<>> /\ abChannel' = <<abPrep.job>>
        /\ UNCHANGED <<abQueue, abWorker, abOpen>>
    BY <1>2 DEF SendPrepared
  <2>2. ASSUME NEW d \in AirCells
        PROVE  /\ InQueue(d)' <=> InQueue(d)
               /\ InRun(d)' <=> InRun(d)
               /\ ~InPrep(d)'
               /\ InWorker(d)' <=> InWorker(d)
    BY <1>n, <2>1 DEF InQueue, InRun, InPrep, InWorker
  <2>3. ASSUME NEW d PROVE ~OnWay(d) /\ (OnWay(d)' <=> InPrep(d))
    <3>1. ~OnWay(d)
      BY <2>1 DEF OnWay
    <3>2. DOMAIN abChannel' = {1} /\ abChannel'[1] = abPrep.job
      BY <2>1
    <3> QED BY <3>1, <3>2 DEF OnWay, InPrep
  <2>4. OnePlace'
    BY <1>0, <2>1, <2>2, <2>3 DEF OnePlace
  <2>5. QueueOnce' /\ RunOnce' /\ HandsApart'
    BY <1>0, <2>1 DEF QueueOnce, RunOnce, HandsApart
  <2> QED BY <2>4, <2>5 DEF NoneTwice, QueueOnce, RunOnce, HandsApart
<1> QED BY <1>1, <1>2

LEMMA WorkerKeepsPlaces ==
    ASSUME AbInv, NEW w \in Streams, WorkerNext(w)
    PROVE  NoneTwice' /\ OnePlace'
<1>0. AbTypeOK /\ QueueOnce /\ RunOnce /\ HandsApart /\ OnePlace /\ HandsEmpty
  BY DEF AbInv, NoneTwice, QueueOnce, RunOnce, HandsApart
<1>n. NoJob.cell = NoCell /\ NoCell \notin AirCells /\ \A job \in Jobs : job.cell \in AirCells \cup {NoCell}
  BY NoCellIsNone
<1>p. ASSUME UNCHANGED <<abQueue, abPrep>>
      PROVE  /\ QueueOnce' /\ RunOnce'
             /\ \A d : (InQueue(d)' <=> InQueue(d)) /\ (InRun(d)' <=> InRun(d)) /\ (InPrep(d)' <=> InPrep(d))
  BY <1>0, <1>p DEF QueueOnce, RunOnce, InQueue, InRun, InPrep
<1>1. CASE Receive(w)
  <2>1. /\ abWorker[w].job = NoJob /\ abChannel # <<>> /\ abChannel' = Tail(abChannel)
        /\ abWorker' = [abWorker EXCEPT ![w] = Worker("acquire", Head(abChannel), 0)]
        /\ UNCHANGED <<abQueue, abPrep, abOpen>>
    BY <1>0, <1>1 DEF Receive, HandsEmpty
  <2>2. DOMAIN abChannel = {1} /\ Head(abChannel) = abChannel[1] /\ abChannel' = <<>> /\ abChannel[1] \in Jobs
    <3>0. Len(abChannel) <= 1 /\ abChannel \in Seq(Jobs)
      BY <1>0 DEF AbTypeOK
    <3>1. Len(abChannel) \in Nat /\ Len(abChannel) # 0
      BY <2>1, <3>0
    <3>n. Len(abChannel) = 1
      <4>1. PICK n \in Nat : n = Len(abChannel)
        BY <3>1
      <4>2. n <= 1 /\ n # 0
        BY <3>0, <3>1, <4>1
      <4>3. n = 1
        BY <4>2
      <4> QED BY <4>1, <4>3
    <3>d. DOMAIN abChannel = 1 .. 1
      BY <3>0, <3>n
    <3>2. DOMAIN abChannel = {1}
      BY <3>d
    <3>3. Head(abChannel) = abChannel[1] /\ abChannel[1] \in Jobs
      BY <3>0, <3>2
    <3>4. Len(Tail(abChannel)) = 1 - 1 /\ Tail(abChannel) \in Seq(Jobs)
      BY <2>1, <3>0, <3>n, HeadTailProperties
    <3> QED BY <2>1, <3>2, <3>3, <3>4
  <2>3. abWorker'[w].job = abChannel[1] /\ \A v \in Streams : v # w => abWorker'[v] = abWorker[v]
    BY <1>0, <2>1, <2>2 DEF AbTypeOK, Worker
  <2>4. ASSUME NEW d \in AirCells
        PROVE  /\ OnWay(d) <=> abChannel[1].cell = d
               /\ ~OnWay(d)'
               /\ InWorker(d)' <=> InWorker(d) \/ abChannel[1].cell = d
    <3>1. OnWay(d) <=> abChannel[1].cell = d
      BY <2>2 DEF OnWay
    <3>2. ~OnWay(d)'
      BY <2>2 DEF OnWay
    <3>3. InWorker(d)' <=> InWorker(d) \/ abChannel[1].cell = d
      BY <1>n, <2>1, <2>3 DEF InWorker
    <3> QED BY <3>1, <3>2, <3>3
  <2>5. OnePlace'
    BY <1>0, <1>p, <2>1, <2>4 DEF OnePlace
  <2>6. HandsApart'
    <3> SUFFICES ASSUME NEW u \in Streams, NEW v \in Streams, u # v,
                        abWorker'[u].job.cell = abWorker'[v].job.cell,
                        abWorker'[u].job.cell # NoCell
                 PROVE  FALSE
      BY DEF HandsApart
    <3>1. CASE u # w /\ v # w
      BY <1>0, <2>3, <3>1 DEF HandsApart
    <3>2. CASE u = w \/ v = w
      <4>1. PICK x \in Streams : x # w /\ abWorker[x].job.cell = abChannel[1].cell /\ abChannel[1].cell # NoCell
        BY <2>3, <3>2
      <4>2. abChannel[1].cell \in AirCells
        BY <1>n, <2>2, <4>1
      <4>3. InWorker(abChannel[1].cell) /\ OnWay(abChannel[1].cell)
        BY <2>4, <4>1, <4>2 DEF InWorker
      <4> QED BY <1>0, <4>2, <4>3 DEF OnePlace
    <3> QED BY <3>1, <3>2
  <2> QED BY <1>p, <2>1, <2>5, <2>6 DEF NoneTwice, QueueOnce, RunOnce, HandsApart
<1>2. CASE PrintResult(w)
  <2>1. /\ abWorker' = [abWorker EXCEPT ![w] = Worker("receive", NoJob, 0)]
        /\ abOpen' = abOpen \ {abWorker[w].job.cell}
        /\ UNCHANGED <<abQueue, abPrep, abChannel>>
    BY <1>2 DEF PrintResult
  <2>2. abWorker'[w].job = NoJob /\ \A v \in Streams : v # w => abWorker'[v] = abWorker[v]
    BY <1>0, <2>1 DEF AbTypeOK, Worker
  <2>3. ASSUME NEW d \in AirCells
        PROVE  InWorker(d)' <=> InWorker(d) /\ d # abWorker[w].job.cell
    <3>1. ASSUME InWorker(d)' PROVE InWorker(d) /\ d # abWorker[w].job.cell
      <4>1. PICK v \in Streams : abWorker'[v].job.cell = d
        BY <3>1 DEF InWorker
      <4>2. v # w /\ abWorker[v].job.cell = d
        BY <1>n, <2>2, <4>1
      <4> QED BY <1>0, <1>n, <4>2 DEF InWorker, HandsApart
    <3>2. ASSUME InWorker(d), d # abWorker[w].job.cell PROVE InWorker(d)'
      BY <2>2, <3>2 DEF InWorker
    <3> QED BY <3>1, <3>2
  <2>4. ASSUME NEW d PROVE OnWay(d)' <=> OnWay(d)
    BY <2>1 DEF OnWay
  <2>5. ASSUME NEW d \in AirCells, d = abWorker[w].job.cell PROVE InWorker(d)
    BY <2>5 DEF InWorker
  <2>6. OnePlace'
    BY <1>0, <1>p, <2>1, <2>3, <2>4, <2>5 DEF OnePlace
  <2>7. HandsApart'
    BY <1>0, <1>n, <2>2 DEF HandsApart
  <2> QED BY <1>p, <2>1, <2>6, <2>7 DEF NoneTwice, QueueOnce, RunOnce, HandsApart
<1>3. CASE ~Receive(w) /\ ~PrintResult(w)
  <2>1. /\ \A v \in Streams : abWorker'[v].job.cell = abWorker[v].job.cell
        /\ UNCHANGED <<abQueue, abPrep, abChannel, abOpen>>
    BY <1>3, WorkerCells
  <2>2. ASSUME NEW d PROVE (OnWay(d)' <=> OnWay(d)) /\ (InWorker(d)' <=> InWorker(d))
    BY <2>1 DEF OnWay, InWorker
  <2>3. OnePlace'
    BY <1>0, <1>p, <2>1, <2>2 DEF OnePlace
  <2>4. HandsApart'
    BY <1>0, <2>1 DEF HandsApart
  <2> QED BY <1>p, <2>1, <2>3, <2>4 DEF NoneTwice, QueueOnce, RunOnce, HandsApart
<1> QED BY <1>1, <1>2, <1>3

LEMMA AbInitInv == AbInit => AbInv
<1> SUFFICES ASSUME AbInit PROVE AbInv
  OBVIOUS
<1>0. Total \in Nat /\ Total >= 1 /\ 0 \in 0 .. Total /\ Total \in 0 .. Total
  BY StreamsCount
<1>1. /\ abQueue = <<>> /\ abPrep = [pc |-> "pull", run |-> <<>>, job |-> NoJob] /\ abChannel = <<>>
      /\ abWorker = [w \in Streams |-> Worker("open", NoJob, 0)] /\ abOpen = {}
      /\ abGate = [available |-> Total, waiters |-> 0] /\ abClosed = FALSE /\ abFatal = FALSE
      /\ abReader = "read"
  BY DEF AbInit
<1>2. NoJob \in Jobs
  BY DEF Jobs
<1>3. \A w \in Streams : abWorker[w].pc = "open" /\ abWorker[w].job = NoJob /\ abWorker[w].held = 0
  BY <1>1 DEF Worker
<1>4. AbTypeOK
  <2>1. abPrep \in [pc : {"pull", "sleep", "prepare", "send", "ended"}, run : Seq(AirCells), job : Jobs]
    BY <1>1, <1>2
  <2>2. abWorker \in Workers
    BY <1>0, <1>1, <1>2 DEF Worker, Workers, WorkerPcs
  <2>3. abGate \in [available : 0..Total, waiters : 0..Total]
    BY <1>0, <1>1
  <2>4. abChannel \in Seq(Jobs) /\ Len(abChannel) <= 1 /\ abQueue \in Seq(AirCells)
    BY <1>1
  <2> QED BY <1>1, <2>1, <2>2, <2>3, <2>4 DEF AbTypeOK, Workers, WorkerPcs
<1>5. BuildersHold /\ Announced = {} /\ Admitted = {} /\ HandsEmpty
  BY <1>1, <1>3 DEF BuildersHold, Announced, Admitted, HandsEmpty
<1>6. Cardinality({}) = 0
  BY FS_EmptySet
<1>7. PermitsAccounted /\ abGate.waiters = Cardinality(Announced)
  BY <1>0, <1>1, <1>3, <1>5, <1>6 DEF PermitsAccounted
<1>8. NoneTwice /\ OnePlace
  <2>1. \A c \in AirCells : ~InQueue(c) /\ ~InRun(c) /\ ~InPrep(c) /\ ~OnWay(c) /\ ~InWorker(c)
    BY <1>1, <1>3, NoCellIsNone DEF InQueue, InRun, InPrep, OnWay, InWorker
  <2>2. OnePlace
    BY <1>1, <2>1 DEF OnePlace
  <2>3. NoneTwice
    BY <1>1, <1>3, NoCellIsNone DEF NoneTwice
  <2> QED BY <2>2, <2>3
<1> QED BY <1>4, <1>5, <1>7, <1>8 DEF AbInv

LEMMA AbStepInv == AbInv /\ [AbNext]_abVars => AbInv'
<1>1. ASSUME AbInv, AbNext PROVE AbInv'
  <2>1. AbTypeOK' /\ BuildersHold' /\ PermitsAccounted' /\ abGate'.waiters = Cardinality(Announced')
    BY <1>1, KeepsAbTypes DEF WorkersFit
  <2>2. HandsEmpty'
    BY <1>1, KeepsHands
  <2>3. NoneTwice' /\ OnePlace'
    <3>1. CASE CloseInput \/ NotifyPrep
      <4>1. abPrep'.run = abPrep.run /\ abPrep'.job = abPrep.job /\ UNCHANGED <<abQueue, abChannel, abWorker, abOpen>>
        BY <1>1, <3>1 DEF CloseInput, NotifyPrep, AbInv, AbTypeOK
      <4> QED BY <1>1, <4>1 DEF AbInv, NoneTwice, OnePlace, InQueue, InRun, InPrep, OnWay, InWorker
    <3> QED BY <1>1, <3>1, ReaderKeepsPlaces, PullKeepsPlaces, PrepKeepsPlaces, WorkerKeepsPlaces
            DEF AbNext, PrepNext
  <2> QED BY <2>1, <2>2, <2>3 DEF AbInv
<1>2. ASSUME AbInv, UNCHANGED abVars PROVE AbInv'
  <2>1. UNCHANGED <<abQueue, abClosed, abReader, abPrep, abChannel, abWorker, abGate, abOpen, abFatal>>
    BY <1>2 DEF abVars
  <2> QED BY <1>2, <2>1 DEF AbInv, AbTypeOK, BuildersHold, PermitsAccounted, Admitted, Announced, NoneTwice,
             OnePlace, HandsEmpty, InQueue, InRun, InPrep, OnWay, InWorker
<1> QED BY <1>1, <1>2

\* The types, for any number of cells and streams: permits neither leak nor
\* multiply past the gate's, whatever fails.
THEOREM AirborneTypesHold == AbSpec => []AbTypeOK
<1>1. AbInv => AbTypeOK
  BY DEF AbInv
<1> QED BY <1>1, AbInitInv, AbStepInv, PTL DEF AbSpec

\* A large build has all the permits of the gate, so that no other one has any.
LEMMA LargeAlone == AbInv => LargeBuildsRunAlone
<1> SUFFICES ASSUME AbInv, NEW w \in Streams, NEW v \in Streams, w # v, LargeBuild(w),
                    abWorker[v].pc = "build"
             PROVE  FALSE
  BY DEF LargeBuildsRunAlone
<1>0. AbTypeOK /\ BuildersHold /\ PermitsAccounted
  BY DEF AbInv
<1>1. Total \in Nat /\ Total >= 1 /\ abWorker[w].held = Total
  BY <1>0, StreamsCount DEF BuildersHold, LargeBuild, Want
<1>2. abWorker[v].held > 0
  BY <1>0 DEF BuildersHold
<1>3. {w, v} \subseteq Admitted /\ Admitted \subseteq Streams
  BY <1>1, <1>2 DEF Admitted
<1>4. ~ \E u \in Streams : Admitted = {u}
  BY <1>3
<1>5. Total = 1
  BY <1>0, <1>1, <1>4 DEF PermitsAccounted
<1>6. Streams = {w}
  BY <1>5, FS_Singleton, AirborneAssumption DEF Total, AirborneAssumption
<1> QED BY <1>6

\* The places of a cell, counted.
LEMMA OneOrNone ==
    ASSUME NEW S, \A x, y \in S : x = y
    PROVE  Cardinality(S) = IF S = {} THEN 0 ELSE 1
<1>1. CASE S = {}
  BY <1>1, FS_EmptySet
<1>2. ASSUME NEW x \in S PROVE Cardinality(S) = 1
  <2>1. S = {x}
    BY <1>2
  <2> QED BY <2>1, FS_Singleton
<1> QED BY <1>1, <1>2

LEMMA OnePlaceEach == AbInv => CellsAreInOnePlace
<1> SUFFICES ASSUME AbInv, NEW c \in AirCells PROVE Places(c) = IF c \in abOpen THEN 1 ELSE 0
  BY DEF CellsAreInOnePlace
<1>0. NoneTwice /\ OnePlace /\ Len(abChannel) <= 1 /\ abChannel \in Seq(Jobs) /\ c # NoCell
  BY NoCellIsNone DEF AbInv, AbTypeOK
<1>1. Cardinality({i \in DOMAIN abQueue : abQueue[i] = c}) = IF InQueue(c) THEN 1 ELSE 0
  <2>1. \A x, y \in {i \in DOMAIN abQueue : abQueue[i] = c} : x = y
    BY <1>0 DEF NoneTwice
  <2>2. {i \in DOMAIN abQueue : abQueue[i] = c} = {} <=> ~InQueue(c)
    BY DEF InQueue
  <2> QED BY <2>1, <2>2, OneOrNone
<1>2. Cardinality({i \in DOMAIN abPrep.run : abPrep.run[i] = c}) = IF InRun(c) THEN 1 ELSE 0
  <2>1. \A x, y \in {i \in DOMAIN abPrep.run : abPrep.run[i] = c} : x = y
    BY <1>0 DEF NoneTwice
  <2>2. {i \in DOMAIN abPrep.run : abPrep.run[i] = c} = {} <=> ~InRun(c)
    BY DEF InRun
  <2> QED BY <2>1, <2>2, OneOrNone
<1>3. Cardinality({i \in DOMAIN abChannel : abChannel[i].cell = c}) = IF OnWay(c) THEN 1 ELSE 0
  <2>1. \A x, y \in {i \in DOMAIN abChannel : abChannel[i].cell = c} : x = y
    BY <1>0
  <2>2. {i \in DOMAIN abChannel : abChannel[i].cell = c} = {} <=> ~OnWay(c)
    BY DEF OnWay
  <2> QED BY <2>1, <2>2, OneOrNone
<1>4. Cardinality({w \in Streams : abWorker[w].job.cell = c}) = IF InWorker(c) THEN 1 ELSE 0
  <2>1. \A x, y \in {w \in Streams : abWorker[w].job.cell = c} : x = y
    BY <1>0 DEF NoneTwice
  <2>2. {w \in Streams : abWorker[w].job.cell = c} = {} <=> ~InWorker(c)
    BY DEF InWorker
  <2> QED BY <2>1, <2>2, OneOrNone
<1>5. c \in abOpen <=> InQueue(c) \/ InRun(c) \/ InPrep(c) \/ OnWay(c) \/ InWorker(c)
  BY <1>0 DEF OnePlace
<1>6. /\ ~(InQueue(c) /\ (InRun(c) \/ InPrep(c) \/ OnWay(c) \/ InWorker(c)))
      /\ ~(InRun(c) /\ (InPrep(c) \/ OnWay(c) \/ InWorker(c)))
      /\ ~(InPrep(c) /\ (OnWay(c) \/ InWorker(c)))
      /\ ~(OnWay(c) /\ InWorker(c))
  BY <1>0 DEF OnePlace
<1>7. Places(c) = (IF InQueue(c) THEN 1 ELSE 0) + (IF InRun(c) THEN 1 ELSE 0) + (IF OnWay(c) THEN 1 ELSE 0)
                  + (IF InWorker(c) THEN 1 ELSE 0) + (IF InPrep(c) THEN 1 ELSE 0)
  BY <1>1, <1>2, <1>3, <1>4 DEF Places, InPrep
<1> QED BY <1>5, <1>6, <1>7

\* However the workers race for the gate, fall back to chunks and panic, a build
\* that may fill the card runs alone; and each cell that was read and not answered
\* is in exactly one place, for any number of cells and streams (VramGate, run_stream).
THEOREM BuildsAlwaysExclusive == AbSpec => []BuildsAreExclusive
<1>1. AbInv => BuildsAreExclusive
  BY LargeAlone, OnePlaceEach DEF BuildsAreExclusive
<1> QED BY <1>1, AbInitInv, AbStepInv, PTL DEF AbSpec

\* What the components keep, they keep side by side.
LEMMA PipelinesStep ==
    /\ PipelinesInit => SuInv /\ PbInv /\ AbInv
    /\ SuInv /\ PbInv /\ AbInv /\ [PipelinesNext]_PipelineVars => (SuInv /\ PbInv /\ AbInv)'
<1>1. ASSUME [PipelinesNext]_PipelineVars
      PROVE  [SuNext]_suVars /\ [PbNext]_pbVars /\ [AbNext]_abVars
  BY <1>1 DEF PipelinesNext, PipelineVars
<1> QED BY <1>1, SuInitInv, SuStepInv, PbInitInv, PbStepInv, AbInitInv, AbStepInv DEF PipelinesInit

\* In the composition of the pipelines the variables of each have their types: no
\* semaphore, channel or gate counts past its limit.
THEOREM PipelineTypesHold == PipelinesSpec => []TypesHold
<1>1. SuInv /\ PbInv /\ AbInv => TypesHold
  BY DEF SuInv, PbInv, AbInv, TypesHold
<1> QED BY <1>1, PipelinesStep, PTL DEF PipelinesSpec
=============================================================================
