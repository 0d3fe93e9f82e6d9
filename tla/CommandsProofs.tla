--------------------------- MODULE CommandsProofs ---------------------------
(***************************************************************************)
(* Theorems about Commands, for any buttons, senders, commands and numbers *)
(* of failures, drops and power losses.                                    *)
(***************************************************************************)
EXTENDS Commands, SequenceTheorems, TLAPS

-----------------------------------------------------------------------------
(* Commands and their parts *)

\* A command is an OTA with a version or a DOWNLOAD with at least one part.
LEMMA OrderKinds ==
  ASSUME NEW m \in Orders
  PROVE  \/ m.type = "OTA" /\ m.version \in Versions
         \/ m.type = "DOWNLOAD" /\ m.parts \in Seq(Buttons \X Senders) /\ m.parts # <<>>
<1>1. m \in Otas \cup Downloads /\ (m.type = "DOWNLOAD" => m.parts # <<>>)
  BY CommandsAssumption
<1>2. m \in Otas => m.type = "OTA" /\ m.version \in Versions
  BY DEF Otas
<1>3. m \in Downloads => m.type = "DOWNLOAD" /\ m.parts \in Seq(Buttons \X Senders)
  BY DEF Downloads
<1> QED
  BY <1>1, <1>2, <1>3

LEMMA PartTypes ==
  ASSUME NEW m \in Orders, m.type = "DOWNLOAD", NEW n \in DOMAIN m.parts
  PROVE  m.parts[n][1] \in Buttons /\ m.parts[n][2] \in Senders
<1>1. m.parts \in Seq(Buttons \X Senders)
  BY OrderKinds
<1>2. m.parts[n] \in Buttons \X Senders
  BY <1>1
<1> QED
  BY <1>2

\* The command names the button.
Names(m, c) == m.type = "DOWNLOAD" /\ \E n \in DOMAIN m.parts : m.parts[n][1] = c

\* Whichever part names a button, it names the sender the server stored.
LEMMA SenderOfPart ==
  ASSUME NEW m \in Orders, m.type = "DOWNLOAD", NEW n \in DOMAIN m.parts, NEW old
  PROVE  Sender(m, m.parts[n][1], old) = m.parts[n][2]
<1> DEFINE mine == {j \in DOMAIN m.parts : m.parts[j][1] = m.parts[n][1]}
<1>1. n \in mine
  OBVIOUS
<1>2. PICK j \in mine : j = CHOOSE l \in mine : TRUE
  BY <1>1
<1>3. m.parts[j][2] = m.parts[n][2]
  BY <1>2, CommandsAssumption
<1> QED
  BY <1>1, <1>2, <1>3 DEF Sender

LEMMA SenderOfOther ==
  ASSUME NEW m \in Orders, m.type = "DOWNLOAD", NEW c, ~Names(m, c), NEW old
  PROVE  Sender(m, c, old) = old
BY DEF Sender, Names

-----------------------------------------------------------------------------
(* The stack of calls *)

LEMMA LastOfStack ==
  ASSUME NEW S, NEW s \in Seq(S), s # <<>>
  PROVE  Len(s) \in Nat \ {0} /\ Last(s) = s[Len(s)] /\ Last(s) \in S
BY EmptySeq DEF Last

LEMMA PopStack ==
  ASSUME NEW S, NEW s \in Seq(S), s # <<>>
  PROVE  /\ Front(s) \in Seq(S) /\ Len(Front(s)) = Len(s) - 1
         /\ \A j \in 1..Len(s)-1 : Front(s)[j] = s[j]
<1>1. Len(s) \in Nat \ {0}
  BY EmptySeq
<1>2. \A j \in 1..Len(s)-1 : s[j] \in S
  BY <1>1
<1> DEFINE n == Len(s) - 1
<1>3. n \in Nat /\ \A j \in 1..n : s[j] \in S
  BY <1>1, <1>2
<1> HIDE DEF n
<1>4. /\ SubSeq(s, 1, n) \in Seq(S)
      /\ Len(SubSeq(s, 1, n)) = IF 1 <= n THEN n - 1 + 1 ELSE 0
      /\ \A j \in 1..n-1+1 : SubSeq(s, 1, n)[j] = s[1 + j - 1]
  BY <1>3, SubSeqProperties
<1>5. Len(SubSeq(s, 1, n)) = n
  BY <1>3, <1>4
<1>6. ASSUME NEW j \in 1..n PROVE SubSeq(s, 1, n)[j] = s[j]
  <2>1. j \in 1..n-1+1 /\ 1 + j - 1 = j
    BY <1>3
  <2> QED
    BY <1>4, <2>1
<1> QED
  BY <1>4, <1>5, <1>6 DEF Front, n

LEMMA ReplaceTop ==
  ASSUME NEW S, NEW s \in Seq(S), s # <<>>, NEW f \in S
  PROVE  /\ Append(Front(s), f) \in Seq(S)
         /\ Len(Append(Front(s), f)) = Len(s)
         /\ Append(Front(s), f)[Len(s)] = f
         /\ \A j \in 1..Len(s)-1 : Append(Front(s), f)[j] = s[j]
<1>1. Len(s) \in Nat \ {0}
  BY EmptySeq
<1>2. /\ Front(s) \in Seq(S) /\ Len(Front(s)) = Len(s) - 1
      /\ \A j \in 1..Len(s)-1 : Front(s)[j] = s[j]
  BY PopStack
<1>3. /\ Append(Front(s), f) \in Seq(S)
      /\ Len(Append(Front(s), f)) = Len(s) - 1 + 1
      /\ Append(Front(s), f)[Len(s) - 1 + 1] = f
  BY <1>2, AppendProperties
<1>4. \A j \in 1..Len(s)-1 : Append(Front(s), f)[j] = s[j]
  BY <1>2, AppendProperties
<1> QED
  BY <1>1, <1>3, <1>4

-----------------------------------------------------------------------------
(* The running calls *)

Frames == [msg : Orders, at : Labels, k : Nat, try : 1..2, failed : SUBSET Buttons]

\* A call is where its command can have brought it, and at one of its parts.
FrameOK(f) ==
  \/ /\ f.msg.type = "DOWNLOAD" /\ f.k \in DOMAIN f.msg.parts
     /\ f.at \in {"loop", "ready", "button", "download", "body", "ids", "write",
                  "status"}
     /\ f.at = "status" => f.k = Len(f.msg.parts)
  \/ /\ f.msg.type = "OTA"
     /\ f.at \in {"loop", "ota", "forever", "openVersion", "writeVersion",
                  "restart"}

\* Only the innermost call has come past its mqtt->loop(), and there are no
\* more calls and waiting commands than the server sent.
StackInv ==
  /\ calls \in Seq(Frames) /\ inbox \in Seq(Orders)
  /\ \A j \in 1..Len(calls) :
       FrameOK(calls[j]) /\ (j < Len(calls) => calls[j].at = "loop")
  /\ Len(calls) + Len(inbox) <= sent
  /\ calls # <<>> \/ inbox # <<>> => pc = "listen"

LEMMA TopIsFrame ==
  ASSUME StackInv, calls # <<>>
  PROVE  /\ Len(calls) \in Nat \ {0} /\ Top = calls[Len(calls)]
         /\ Top \in Frames /\ Top.msg \in Orders /\ FrameOK(Top)
         /\ pc = "listen"
<1>1. calls \in Seq(Frames)
  BY DEF StackInv
<1>2. Len(calls) \in Nat \ {0} /\ Top = calls[Len(calls)] /\ Top \in Frames
  BY <1>1, LastOfStack DEF Top
<1>3. Len(calls) \in 1..Len(calls)
  BY <1>2
<1>4. FrameOK(Top) /\ pc = "listen"
  BY <1>2, <1>3 DEF StackInv
<1> QED
  BY <1>2, <1>4 DEF Frames

\* The innermost call goes on.
LEMMA StackBecomes ==
  ASSUME StackInv, TypeOK, calls # <<>>, NEW g \in Frames, FrameOK(g), Becomes(g),
         UNCHANGED <<pc, inbox, sent>>
  PROVE  /\ StackInv' /\ calls' # <<>> /\ Top' = g
         /\ Len(calls') = Len(calls)
         /\ \A j \in 1..Len(calls)-1 : calls'[j] = calls[j]
<1>1. Len(calls) \in Nat \ {0} /\ calls \in Seq(Frames)
  BY TopIsFrame DEF StackInv
<1>2. /\ calls' \in Seq(Frames) /\ Len(calls') = Len(calls) /\ calls'[Len(calls)] = g
      /\ \A j \in 1..Len(calls)-1 : calls'[j] = calls[j]
  BY <1>1, ReplaceTop DEF Becomes
<1>3. calls' # <<>>
  BY <1>1, <1>2, EmptySeq
<1>4. Top' = g
  BY <1>2, <1>3, LastOfStack DEF Top
<1>5. ASSUME NEW j \in 1..Len(calls')
      PROVE  FrameOK(calls'[j]) /\ (j < Len(calls') => calls'[j].at = "loop")
  <2>1. CASE j = Len(calls)
    BY <1>2, <2>1
  <2>2. CASE j # Len(calls)
    <3>1. j \in 1..Len(calls)-1 /\ j \in 1..Len(calls) /\ j < Len(calls)
      BY <1>1, <1>2, <2>2
    <3> QED
      BY <1>2, <3>1 DEF StackInv
  <2> QED
    BY <2>1, <2>2
<1>6. StackInv'
  BY <1>2, <1>5 DEF StackInv, FrameOK
<1> QED
  BY <1>2, <1>3, <1>4, <1>6

\* The innermost call returns, to a call that is in its mqtt->loop().
LEMMA StackReturns ==
  ASSUME StackInv, TypeOK, calls # <<>>, Return, UNCHANGED <<pc, inbox, sent>>
  PROVE  /\ StackInv' /\ Len(calls') = Len(calls) - 1
         /\ \A j \in 1..Len(calls)-1 : calls'[j] = calls[j]
         /\ calls' # <<>> => Top'.at = "loop"
<1>1. Len(calls) \in Nat \ {0} /\ calls \in Seq(Frames) /\ inbox \in Seq(Orders)
  BY TopIsFrame DEF StackInv
<1>2. /\ calls' \in Seq(Frames) /\ Len(calls') = Len(calls) - 1
      /\ \A j \in 1..Len(calls)-1 : calls'[j] = calls[j]
  BY <1>1, PopStack DEF Return
<1>3. ASSUME NEW j \in 1..Len(calls')
      PROVE  FrameOK(calls'[j]) /\ calls'[j].at = "loop"
  <2>1. j \in 1..Len(calls)-1 /\ j \in 1..Len(calls) /\ j < Len(calls)
    BY <1>1, <1>2
  <2> QED
    BY <1>2, <2>1 DEF StackInv
<1>4. calls' # <<>> => Top'.at = "loop"
  <2>1. ASSUME calls' # <<>> PROVE Top' = calls'[Len(calls')] /\ Len(calls') \in 1..Len(calls')
    BY <1>2, <2>1, LastOfStack DEF Top
  <2> QED
    BY <1>3, <2>1
<1>5. Len(calls') + Len(inbox') <= sent'
  <2>1. Len(inbox) \in Nat /\ sent \in Nat /\ Len(calls) + Len(inbox) <= sent
    BY <1>1, CommandsAssumption DEF StackInv, TypeOK
  <2> QED
    BY <1>1, <1>2, <2>1
<1>6. StackInv'
  BY <1>1, <1>2, <1>3, <1>5, TopIsFrame DEF StackInv
<1> QED
  BY <1>2, <1>4, <1>6

\* A command becomes the innermost call.
LEMMA StackReceives ==
  ASSUME StackInv, TypeOK, Receive
  PROVE  /\ StackInv' /\ calls' # <<>> /\ Top' = Call(Head(inbox))
         /\ Head(inbox) \in Orders /\ Len(calls') = Len(calls) + 1
         /\ \A j \in 1..Len(calls) : calls'[j] = calls[j]
<1>1. /\ calls \in Seq(Frames) /\ inbox \in Seq(Orders) /\ inbox # <<>>
      /\ calls' = Append(calls, Call(Head(inbox))) /\ inbox' = Tail(inbox)
      /\ pc = "listen" /\ pc' = pc /\ sent' = sent
  BY DEF StackInv, Receive, boundVars
<1>2. Head(inbox) \in Orders /\ Tail(inbox) \in Seq(Orders) /\ Len(Tail(inbox)) = Len(inbox) - 1
  BY <1>1, HeadTailProperties
<1>3. Call(Head(inbox)) \in Frames /\ FrameOK(Call(Head(inbox)))
  <2>1. CASE Head(inbox).type = "OTA"
    BY <1>2, <2>1 DEF Call, Frames, FrameOK, Labels
  <2>2. CASE Head(inbox).type = "DOWNLOAD"
    <3>1. Head(inbox).parts \in Seq(Buttons \X Senders) /\ Head(inbox).parts # <<>>
      BY <1>2, <2>2, OrderKinds
    <3>2. 1 \in DOMAIN Head(inbox).parts
      BY <3>1
    <3> QED
      BY <1>2, <2>2, <3>2 DEF Call, Frames, FrameOK, Labels
  <2> QED
    BY <1>2, <2>1, <2>2, OrderKinds
<1>4. /\ calls' \in Seq(Frames) /\ calls' # <<>> /\ Len(calls') = Len(calls) + 1
      /\ \A j \in 1..Len(calls) : calls'[j] = calls[j]
      /\ calls'[Len(calls) + 1] = Call(Head(inbox))
  BY <1>1, <1>3, AppendProperties
<1>5. Top' = Call(Head(inbox))
  BY <1>4, LastOfStack DEF Top
<1>6. Len(calls) \in Nat
  BY <1>1, LenProperties
<1>7. ASSUME NEW j \in 1..Len(calls')
      PROVE  FrameOK(calls'[j]) /\ (j < Len(calls') => calls'[j].at = "loop")
  <2>1. CASE j = Len(calls) + 1
    BY <1>3, <1>4, <1>6, <2>1
  <2>2. CASE j # Len(calls) + 1
    <3>1. j \in 1..Len(calls)
      BY <1>4, <1>6, <2>2
    <3>2. j = Len(calls) => calls[j].at = "loop"
      <4>1. ASSUME j = Len(calls) PROVE calls # <<>>
        BY <3>1, <4>1, <1>6
      <4>2. ASSUME calls # <<>> PROVE Top = calls[Len(calls)] /\ Top.at = "loop"
        BY <4>2, TopIsFrame DEF Receive, At
      <4> QED
        BY <4>1, <4>2
    <3>3. j < Len(calls) => calls[j].at = "loop"
      BY <3>1 DEF StackInv
    <3>4. j = Len(calls) \/ j < Len(calls)
      BY <1>6, <3>1
    <3> QED
      BY <1>4, <3>1, <3>2, <3>3, <3>4 DEF StackInv
  <2> QED
    BY <2>1, <2>2
<1>8. Len(calls') + Len(inbox') <= sent'
  <2>1. Len(inbox) \in Nat /\ sent \in Nat /\ Len(calls) + Len(inbox) <= sent
    BY <1>1, CommandsAssumption, LenProperties DEF StackInv, TypeOK
  <2> QED
    BY <1>1, <1>2, <1>4, <1>6, <2>1
<1>9. StackInv'
  BY <1>1, <1>2, <1>4, <1>7, <1>8 DEF StackInv
<1> QED
  BY <1>2, <1>4, <1>5, <1>9

\* The innermost call goes to one of the labels L, at the same part.
MovesTo(L) == \E g \in Frames : /\ Becomes(g) /\ FrameOK(g)
                                /\ g.msg = Top.msg /\ g.k = Top.k /\ g.at \in L

Loading == {"ready", "button", "download", "body", "ids", "write"}
Updating == {"ota", "forever", "openVersion", "writeVersion", "restart"}

LEMMA FrameKinds ==
  ASSUME NEW f \in Frames, FrameOK(f)
  PROVE  /\ f.at \in Loading \cup {"status"} => f.msg.type = "DOWNLOAD"
         /\ f.at \in Updating => f.msg.type = "OTA"
         /\ f.msg.type = "DOWNLOAD" =>
              /\ f.k \in DOMAIN f.msg.parts
              /\ f.msg.parts[f.k][1] \in Buttons /\ f.msg.parts[f.k][2] \in Senders
         /\ f.msg.type = "OTA" => f.msg.version \in Versions
<1>1. f.msg \in Orders
  BY DEF Frames
<1>2. f.msg.type = "DOWNLOAD" => f.k \in DOMAIN f.msg.parts
  BY DEF FrameOK
<1>3. f.msg.type = "DOWNLOAD" =>
        f.msg.parts[f.k][1] \in Buttons /\ f.msg.parts[f.k][2] \in Senders
  BY <1>1, <1>2, PartTypes
<1>4. f.msg.type = "OTA" => f.msg.version \in Versions
  BY <1>1, OrderKinds
<1> QED
  BY <1>2, <1>3, <1>4 DEF FrameOK, Loading, Updating

LEMMA GotoMoves ==
  ASSUME StackInv, calls # <<>>, NEW l, Goto(l),
         \/ Top.msg.type = "DOWNLOAD" /\ l \in Loading
         \/ Top.msg.type = "OTA" /\ l \in Updating
         \/ Top.msg.type = "DOWNLOAD" /\ l = "status" /\ Top.k = Len(Top.msg.parts)
  PROVE  MovesTo({l})
<1> DEFINE g == [Top EXCEPT !.at = l]
<1>1. Top \in Frames /\ FrameOK(Top)
  BY TopIsFrame
<1>2. /\ g \in Frames /\ g.msg = Top.msg /\ g.k = Top.k /\ g.at = l
  BY <1>1 DEF Frames, Labels, Loading, Updating
<1>3. FrameOK(g)
  BY <1>1, <1>2 DEF FrameOK, Loading, Updating
<1>4. Becomes(g)
  BY DEF Goto
<1> HIDE DEF g
<1> QED
  BY <1>2, <1>3, <1>4 DEF MovesTo

\* A download is tried again, or the senders are written.
LEMMA DownloadMoves ==
  ASSUME StackInv, At("download") \/ At("body"), NEW check \in BOOLEAN,
         AfterDownload(check)
  PROVE  MovesTo({"download", "ids"}) /\ (check => MovesTo({"ids"}))
<1>1. Top \in Frames /\ FrameOK(Top) /\ Top.msg.type = "DOWNLOAD" /\ Part[1] \in Buttons
  BY TopIsFrame, FrameKinds DEF At, Loading, Part
<1>2. ASSUME NEW a \in {"download", "ids"}, NEW t \in 1..2, NEW F \in SUBSET Buttons,
             Becomes([Top EXCEPT !.at = a, !.try = t, !.failed = F])
      PROVE  MovesTo({a})
  <2> DEFINE g == [Top EXCEPT !.at = a, !.try = t, !.failed = F]
  <2>1. /\ g \in Frames /\ g.msg = Top.msg /\ g.k = Top.k /\ g.at = a
    BY <1>1 DEF Frames, Labels
  <2>2. FrameOK(g)
    BY <1>1, <2>1 DEF FrameOK
  <2>3. Becomes(g)
    BY <1>2
  <2> HIDE DEF g
  <2> QED
    BY <2>1, <2>2, <2>3 DEF MovesTo
<1>3. CASE check
  <2>1. Becomes([Top EXCEPT !.at = "ids", !.failed = Top.failed \ {Part[1]}])
    BY <1>3 DEF AfterDownload
  <2>2. [Top EXCEPT !.at = "ids", !.failed = Top.failed \ {Part[1]}]
        = [Top EXCEPT !.at = "ids", !.try = Top.try, !.failed = Top.failed \ {Part[1]}]
    BY <1>1 DEF Frames
  <2>3. Top.try \in 1..2 /\ Top.failed \ {Part[1]} \in SUBSET Buttons
    BY <1>1 DEF Frames
  <2>4. MovesTo({"ids"})
    BY <1>2, <2>1, <2>2, <2>3
  <2> QED
    BY <2>4 DEF MovesTo
<1>4. CASE ~check /\ Top.try = 1
  <2>1. Becomes([Top EXCEPT !.at = "download", !.try = 2])
    BY <1>4 DEF AfterDownload
  <2>2. [Top EXCEPT !.at = "download", !.try = 2]
        = [Top EXCEPT !.at = "download", !.try = 2, !.failed = Top.failed]
    BY <1>1 DEF Frames
  <2>3. 2 \in 1..2 /\ Top.failed \in SUBSET Buttons
    BY <1>1 DEF Frames
  <2>4. MovesTo({"download"})
    BY <1>2, <2>1, <2>2, <2>3
  <2> QED
    BY <1>4, <2>4 DEF MovesTo
<1>5. CASE ~check /\ Top.try # 1
  <2>1. Becomes([Top EXCEPT !.at = "ids", !.failed = Top.failed \cup {Part[1]}])
    BY <1>5 DEF AfterDownload
  <2>2. [Top EXCEPT !.at = "ids", !.failed = Top.failed \cup {Part[1]}]
        = [Top EXCEPT !.at = "ids", !.try = Top.try, !.failed = Top.failed \cup {Part[1]}]
    BY <1>1 DEF Frames
  <2>3. Top.try \in 1..2 /\ Top.failed \cup {Part[1]} \in SUBSET Buttons
    BY <1>1 DEF Frames
  <2>4. MovesTo({"ids"})
    BY <1>2, <2>1, <2>2, <2>3
  <2> QED
    BY <1>5, <2>4 DEF MovesTo
<1> QED
  BY <1>3, <1>4, <1>5

\* The next button, or the status.
LEMMA WriteMoves ==
  ASSUME StackInv, At("write"), WriteIDs
  PROVE  \/ MovesTo({"status"})
         \/ \E g \in Frames : /\ Becomes(g) /\ FrameOK(g)
                              /\ g.msg = Top.msg /\ g.k = Top.k + 1 /\ g.at = "button"
<1>1. Top \in Frames /\ FrameOK(Top) /\ Top.msg.type = "DOWNLOAD" /\ calls # <<>>
      /\ Top.msg.parts \in Seq(Buttons \X Senders) /\ Top.k \in DOMAIN Top.msg.parts
  BY TopIsFrame, FrameKinds, OrderKinds DEF At, Loading
<1>2. Len(Top.msg.parts) \in Nat /\ DOMAIN Top.msg.parts = 1..Len(Top.msg.parts)
  BY <1>1, LenProperties
<1>3. CASE Top.k < Len(Top.msg.parts)
  <2> DEFINE g == [Top EXCEPT !.at = "button", !.k = @ + 1, !.try = 1]
  <2>0. Top.k + 1 \in Nat /\ 1 \in 1..2 /\ "button" \in Labels
    BY <1>1 DEF Frames, Labels
  <2>1. /\ g \in Frames /\ g.msg = Top.msg /\ g.k = Top.k + 1 /\ g.at = "button"
    BY <1>1, <2>0 DEF Frames
  <2>2. Top.k + 1 \in DOMAIN Top.msg.parts
    BY <1>1, <1>2, <1>3
  <2>3. FrameOK(g)
    BY <1>1, <2>1, <2>2 DEF FrameOK
  <2>4. Becomes(g)
    BY <1>3 DEF WriteIDs
  <2> HIDE DEF g
  <2> QED
    BY <2>1, <2>3, <2>4
<1>4. CASE ~(Top.k < Len(Top.msg.parts))
  <2>1. Top.k = Len(Top.msg.parts)
    BY <1>1, <1>2, <1>4
  <2>2. Goto("status")
    BY <1>4 DEF WriteIDs
  <2> QED
    BY <1>1, <2>1, <2>2, GotoMoves
<1> QED
  BY <1>3, <1>4

LEMMA MoveKeepsStack ==
  ASSUME StackInv, TypeOK, calls # <<>>, NEW L, MovesTo(L),
         UNCHANGED <<pc, inbox, sent>>
  PROVE  /\ StackInv' /\ calls' # <<>>
         /\ Top'.msg = Top.msg /\ Top'.k = Top.k /\ Top'.at \in L
         /\ Len(calls') = Len(calls)
         /\ \A j \in 1..Len(calls)-1 : calls'[j] = calls[j]
<1>1. PICK g \in Frames : /\ Becomes(g) /\ FrameOK(g)
                          /\ g.msg = Top.msg /\ g.k = Top.k /\ g.at \in L
  BY DEF MovesTo
<1> QED
  BY <1>1, StackBecomes

\* Where each step of a handler leads.
LEMMA HandlerMoves ==
  ASSUME StackInv
  PROVE  /\ Dispatch => Return \/ MovesTo({"ready"}) \/ MovesTo({"ota"})
         /\ Ready => MovesTo({"button"})
         /\ SetSender => MovesTo({"download"})
         /\ OpenRecording => MovesTo({"body"})
         /\ BodyComplete => MovesTo({"ids"})
         /\ OpenIDs => MovesTo({"write"})
         /\ OtaFails => MovesTo({"forever"})
         /\ OtaInstalls => MovesTo({"openVersion"})
         /\ OpenVersion => MovesTo({"writeVersion"})
         /\ WriteVersion => MovesTo({"restart"})
<1>0. ASSUME calls # <<>>
      PROVE  /\ Top.msg.type \in {"DOWNLOAD", "OTA"}
             /\ Top.at \in Loading \cup {"status"} => Top.msg.type = "DOWNLOAD"
             /\ Top.at \in Updating => Top.msg.type = "OTA"
  BY <1>0, TopIsFrame, FrameKinds, OrderKinds
<1>1. Dispatch => Return \/ MovesTo({"ready"}) \/ MovesTo({"ota"})
  BY <1>0, GotoMoves DEF Dispatch, At, Loading, Updating
<1>2. Ready => MovesTo({"button"})
  BY <1>0, GotoMoves DEF Ready, At, Loading
<1>3. SetSender => MovesTo({"download"})
  BY <1>0, GotoMoves DEF SetSender, At, Loading
<1>4. OpenRecording => MovesTo({"body"})
  BY <1>0, GotoMoves DEF OpenRecording, At, Loading
<1>5. BodyComplete => MovesTo({"ids"})
  BY DownloadMoves DEF BodyComplete
<1>6. OpenIDs => MovesTo({"write"})
  BY <1>0, GotoMoves DEF OpenIDs, At, Loading
<1>7. OtaFails => MovesTo({"forever"})
  BY <1>0, GotoMoves DEF OtaFails, At, Updating
<1>8. OtaInstalls => MovesTo({"openVersion"})
  BY <1>0, GotoMoves DEF OtaInstalls, At, Updating
<1>9. OpenVersion => MovesTo({"writeVersion"})
  BY <1>0, GotoMoves DEF OpenVersion, At, Updating
<1>10. WriteVersion => MovesTo({"restart"})
  BY <1>0, GotoMoves DEF WriteVersion, At, Updating
<1> QED
  BY <1>1, <1>2, <1>3, <1>4, <1>5, <1>6, <1>7, <1>8, <1>9, <1>10

LEMMA RebootKeepsStack ==
  ASSUME StackInv, TypeOK, Reboot, UNCHANGED sent
  PROVE  StackInv' /\ calls' = <<>> /\ inbox' = <<>>
<1>1. calls' = <<>> /\ inbox' = <<>> /\ sent' = sent /\ sent \in Nat
  BY CommandsAssumption DEF Reboot, LoseInbox, TypeOK
<1>2. calls' \in Seq(Frames) /\ inbox' \in Seq(Orders) /\ Len(calls') = 0 /\ Len(inbox') = 0
  BY <1>1, EmptySeq
<1> QED
  BY <1>1, <1>2 DEF StackInv

LEMMA SendKeepsStack ==
  ASSUME StackInv, TypeOK, NEW m \in Orders, SendOrder(m)
  PROVE  StackInv'
<1>1. calls' = calls /\ pc' = pc /\ sent' = sent + 1 /\ calls \in Seq(Frames)
      /\ inbox \in Seq(Orders) /\ sent \in Nat
  BY CommandsAssumption DEF SendOrder, StackInv, TypeOK
<1>2. Len(calls) \in Nat /\ Len(inbox) \in Nat /\ Len(calls) + Len(inbox) <= sent
  BY <1>1, LenProperties DEF StackInv
<1>3. CASE pc = "listen"
  <2>1. inbox' = Append(inbox, m)
    BY <1>3 DEF SendOrder
  <2>2. inbox' \in Seq(Orders) /\ Len(inbox') = Len(inbox) + 1
    BY <1>1, <2>1, AppendProperties
  <2>3. Len(calls') + Len(inbox') <= sent'
    BY <1>1, <1>2, <2>2
  <2> QED
    BY <1>1, <1>3, <2>2, <2>3 DEF StackInv
<1>4. CASE pc # "listen"
  <2>1. inbox' = inbox
    BY <1>4 DEF SendOrder
  <2>2. Len(calls') + Len(inbox') <= sent'
    BY <1>1, <1>2, <2>1
  <2> QED
    BY <1>1, <2>1, <2>2 DEF StackInv
<1> QED
  BY <1>3, <1>4

LEMMA StackNext == TypeOK /\ StackInv /\ [Next]_vars => StackInv'
<1> SUFFICES ASSUME TypeOK, StackInv, [Next]_vars PROVE StackInv'
  OBVIOUS
<1> USE DEF flashVars, serverVars, historyVars, boundVars
<1>1. CASE ReadSenderIDs \/ WriteFirstIDs
  <2>1. UNCHANGED <<calls, inbox, sent>> /\ pc \in {"read", "first"}
    BY <1>1 DEF ReadSenderIDs, WriteFirstIDs
  <2>2. calls = <<>> /\ inbox = <<>>
    BY <2>1 DEF StackInv
  <2> QED
    BY <2>1, <2>2 DEF StackInv
<1>2. CASE Receive
  BY <1>2, StackReceives
<1>3. CASE Dispatch \/ Ready
  <2>1. UNCHANGED <<pc, inbox, sent>> /\ calls # <<>>
    BY <1>3 DEF Dispatch, Ready, At
  <2> QED
    BY <1>3, <2>1, HandlerMoves, MoveKeepsStack, StackReturns
<1>4. CASE SetSender \/ OpenRecording \/ BodyComplete \/ OpenIDs
  <2>1. UNCHANGED <<pc, inbox, sent>> /\ calls # <<>>
    BY <1>4 DEF SetSender, OpenRecording, BodyComplete, OpenIDs, At
  <2> QED
    BY <1>4, <2>1, HandlerMoves, MoveKeepsStack
<1>5. CASE WriteIDs
  <2>1. UNCHANGED <<pc, inbox, sent>> /\ calls # <<>> /\ At("write")
    BY <1>5 DEF WriteIDs, At
  <2> QED
    BY <1>5, <2>1, WriteMoves, MoveKeepsStack, StackBecomes
<1>6. CASE SendStatus
  <2>1. UNCHANGED <<pc, inbox, sent>> /\ calls # <<>> /\ Return
    BY <1>6 DEF SendStatus, At
  <2> QED
    BY <2>1, StackReturns
<1>7. ASSUME NEW check \in BOOLEAN, NotSent(check) \/ BodyFails(check) PROVE StackInv'
  <2>1. UNCHANGED <<pc, inbox, sent>> /\ calls # <<>>
        /\ (At("download") \/ At("body")) /\ AfterDownload(check)
    BY <1>7 DEF NotSent, BodyFails, At
  <2> QED
    BY <2>1, DownloadMoves, MoveKeepsStack
<1>8. CASE OtaFails \/ OtaInstalls \/ OpenVersion \/ WriteVersion
  <2>1. UNCHANGED <<pc, inbox, sent>> /\ calls # <<>>
    BY <1>8 DEF OtaFails, OtaInstalls, OpenVersion, WriteVersion, At
  <2> QED
    BY <1>8, <2>1, HandlerMoves, MoveKeepsStack
<1>9. CASE EspRestart \/ PowerLoss
  BY <1>9, RebootKeepsStack DEF EspRestart, PowerLoss
<1>10. CASE SessionDrop
  <2>1. UNCHANGED <<pc, calls, sent>> /\ inbox' = <<>> /\ inbox \in Seq(Orders)
        /\ calls \in Seq(Frames) /\ sent \in Nat
    BY <1>10, CommandsAssumption DEF SessionDrop, StackInv, TypeOK
  <2>2. Len(inbox) \in Nat /\ inbox' \in Seq(Orders) /\ Len(inbox') = 0
        /\ Len(calls) \in Nat
    BY <2>1, LenProperties, EmptySeq
  <2>3. Len(calls') + Len(inbox') <= sent'
    BY <2>1, <2>2 DEF StackInv
  <2> QED
    BY <2>1, <2>2, <2>3 DEF StackInv
<1>11. ASSUME NEW m \in Orders, SendOrder(m) PROVE StackInv'
  BY <1>11, SendKeepsStack
<1>12. CASE UNCHANGED vars
  BY <1>12 DEF vars, StackInv
<1> QED
  BY <1>1, <1>2, <1>3, <1>4, <1>5, <1>6, <1>7, <1>8, <1>9, <1>10, <1>11, <1>12
     DEF Next, FireBaseTask, Download, Ota

-----------------------------------------------------------------------------
(* Type correctness *)

\* What TypeOK says of everything but the stack and the commands on their way.
MemoryOK ==
  /\ pc \in {"read", "first", "listen"}
  /\ uuid \in Ids /\ idFile \in Ids \cup {All(NoFile)}
  /\ recording \in [Buttons -> Senders \cup {NoSender, Torn}]
  /\ version \in Versions \cup {0} /\ installed \subseteq Versions
  /\ server \in [Buttons -> Senders \cup {NoSender}]
  /\ told \in [Buttons -> {"none", "ok", "failed"}]
  /\ mishaps \subseteq {"nested", "dropped", "cut"} /\ failed \subseteq Buttons
  /\ sent \in 0..MaxSent /\ failures \in 0..MaxFailures
  /\ drops \in 0..MaxDrops /\ losses \in 0..MaxPowerLosses

LEMMA StackIsTyped ==
  ASSUME StackInv, MemoryOK
  PROVE  TypeOK
<1>1. calls \in Seq(Frames) /\ inbox \in Seq(Orders) /\ sent \in 0..MaxSent
      /\ Len(calls) + Len(inbox) <= sent
  BY DEF StackInv, MemoryOK
<1>2. DOMAIN calls = 1..Len(calls) /\ Len(calls) \in Nat /\ Len(inbox) \in Nat
  BY <1>1, LenProperties
<1>3. ASSUME NEW j \in DOMAIN calls
      PROVE  /\ calls[j].msg \in Orders /\ calls[j].at \in Labels
             /\ calls[j].msg.type = "DOWNLOAD" => calls[j].k \in DOMAIN calls[j].msg.parts
             /\ calls[j].try \in 1..2
             /\ calls[j].failed \subseteq Buttons
  <2>1. calls[j] \in Frames
    BY <1>1, <1>2, ElementOfSeq
  <2>2. FrameOK(calls[j])
    BY <1>2 DEF StackInv
  <2> QED
    BY <2>1, <2>2 DEF Frames, FrameOK
<1>4. Len(calls) <= MaxSent
  BY <1>1, <1>2, CommandsAssumption
<1>5. \A j \in DOMAIN inbox : inbox[j] \in Orders
  BY <1>1, LenProperties
<1> QED
  BY <1>3, <1>4, <1>5 DEF TypeOK, MemoryOK

LEMMA TypeInit == Init => StackInv /\ MemoryOK
<1> SUFFICES ASSUME Init PROVE StackInv /\ MemoryOK
  OBVIOUS
<1>1. StackInv
  <2>1. calls = <<>> /\ inbox = <<>> /\ sent = 0
    BY DEF Init
  <2>2. calls \in Seq(Frames) /\ inbox \in Seq(Orders) /\ Len(calls) = 0 /\ Len(inbox) = 0
    BY <2>1, EmptySeq
  <2> QED
    BY <2>1, <2>2 DEF StackInv
<1>2. MemoryOK
  BY CommandsAssumption DEF Init, MemoryOK, Ids, All
<1> QED
  BY <1>1, <1>2

LEMMA SenderIsTyped ==
  ASSUME NEW m \in Orders, m.type = "DOWNLOAD", NEW c \in Buttons,
         NEW old \in Senders \cup {NoSender}
  PROVE  Sender(m, c, old) \in Senders \cup {NoSender}
<1>1. CASE Names(m, c)
  <2>1. PICK n \in DOMAIN m.parts : m.parts[n][1] = c
    BY <1>1 DEF Names
  <2> QED
    BY <2>1, SenderOfPart, PartTypes
<1>2. CASE ~Names(m, c)
  BY <1>2, SenderOfOther
<1> QED
  BY <1>1, <1>2

LEMMA MemoryNext == StackInv /\ MemoryOK /\ [Next]_vars => MemoryOK'
<1> SUFFICES ASSUME StackInv, MemoryOK, [Next]_vars PROVE MemoryOK'
  OBVIOUS
<1> USE DEF MemoryOK, flashVars, serverVars, historyVars, boundVars
<1>0. ASSUME calls # <<>>
      PROVE  /\ Top.at \in Loading \cup {"status"} =>
                  Part[1] \in Buttons /\ Part[2] \in Senders
             /\ Top.at \in Updating => Top.msg.version \in Versions
  BY <1>0, TopIsFrame, FrameKinds DEF Part
<1>1. CASE ReadSenderIDs
  BY <1>1 DEF ReadSenderIDs, TornIds, Ids, All
<1>2. CASE WriteFirstIDs
  BY <1>2 DEF WriteFirstIDs
<1>3. CASE Receive \/ Dispatch \/ Ready
  BY <1>3 DEF Receive, Dispatch, Ready
<1>4. CASE SetSender
  <2>1. Part[1] \in Buttons /\ Part[2] \in Senders
    BY <1>0, <1>4 DEF SetSender, At, Loading
  <2>2. uuid' \in Ids
    BY <1>4, <2>1 DEF SetSender, Ids
  <2> QED
    BY <1>4, <2>2 DEF SetSender
<1>5. CASE OpenRecording
  <2>1. recording' \in [Buttons -> Senders \cup {NoSender, Torn}]
    BY <1>5 DEF OpenRecording
  <2> QED
    BY <1>5, <2>1 DEF OpenRecording
<1>6. CASE BodyComplete
  <2>1. Part[1] \in Buttons
    BY <1>0, <1>6 DEF BodyComplete, At, Loading
  <2>2. recording' \in [Buttons -> Senders \cup {NoSender, Torn}]
    BY <1>6, <2>1 DEF BodyComplete
  <2> QED
    BY <1>6, <2>2 DEF BodyComplete
<1>7. CASE OpenIDs \/ WriteIDs
  BY <1>7 DEF OpenIDs, WriteIDs, TornIds, Ids, All
<1>8. CASE SendStatus
  <2>1. told' \in [Buttons -> {"none", "ok", "failed"}]
    BY <1>8 DEF SendStatus, Status
  <2> QED
    BY <1>8, <2>1 DEF SendStatus
<1>9. ASSUME NEW check \in BOOLEAN, NotSent(check) \/ BodyFails(check) PROVE MemoryOK'
  <2>1. Part[1] \in Buttons
    BY <1>0, <1>9 DEF NotSent, BodyFails, At, Loading
  <2>2. failures' \in 0..MaxFailures /\ failed' \subseteq Buttons
    BY <1>9, <2>1, CommandsAssumption DEF NotSent, BodyFails, Fails
  <2> QED
    BY <1>9, <2>2 DEF NotSent, BodyFails
<1>10. CASE OtaFails
  <2>1. failures' \in 0..MaxFailures
    BY <1>10, CommandsAssumption DEF OtaFails
  <2> QED
    BY <1>10, <2>1 DEF OtaFails
<1>11. CASE OtaInstalls \/ OpenVersion \/ WriteVersion
  <2>1. Top.msg.version \in Versions
    BY <1>0, <1>11 DEF OtaInstalls, OpenVersion, WriteVersion, At, Updating
  <2> QED
    BY <1>11, <2>1 DEF OtaInstalls, OpenVersion, WriteVersion
<1>12. CASE EspRestart \/ PowerLoss
  <2>1. /\ pc' = "read" /\ uuid' \in Ids
        /\ mishaps' \subseteq {"nested", "dropped", "cut"}
    BY <1>12 DEF EspRestart, PowerLoss, Reboot, LoseInbox, Ids, All
  <2>2. losses' \in 0..MaxPowerLosses
    BY <1>12, CommandsAssumption DEF EspRestart, PowerLoss
  <2> QED
    BY <1>12, <2>1, <2>2 DEF EspRestart, PowerLoss
<1>13. CASE SessionDrop
  <2>1. drops' \in 0..MaxDrops
    BY <1>13, CommandsAssumption DEF SessionDrop
  <2> QED
    BY <1>13, <2>1 DEF SessionDrop
<1>14. ASSUME NEW m \in Orders, SendOrder(m) PROVE MemoryOK'
  <2>1. sent' \in 0..MaxSent
    BY <1>14, CommandsAssumption DEF SendOrder
  <2>2. server' \in [Buttons -> Senders \cup {NoSender}]
    BY <1>14, SenderIsTyped, OrderKinds DEF SendOrder
  <2>3. mishaps' \subseteq {"nested", "dropped", "cut"}
    BY <1>14 DEF SendOrder
  <2> QED
    BY <1>14, <2>1, <2>2, <2>3 DEF SendOrder
<1>15. CASE UNCHANGED vars
  BY <1>15 DEF vars
<1> QED
  BY <1>1, <1>2, <1>3, <1>4, <1>5, <1>6, <1>7, <1>8, <1>9, <1>10, <1>11, <1>12,
     <1>13, <1>14, <1>15
     DEF Next, FireBaseTask, Download, Ota

LEMMA CallsAreCorrect == Spec => [](StackInv /\ MemoryOK)
<1>1. StackInv /\ MemoryOK /\ [Next]_vars => (StackInv /\ MemoryOK)'
  BY StackIsTyped, StackNext, MemoryNext
<1> QED
  BY TypeInit, <1>1, PTL DEF Spec

\* For any buttons, commands and bounds every variable keeps its type: no
\* handler runs past its last button, however deep the handlers nest, and no
\* more of them run than commands were sent.
THEOREM TypeCorrect == Spec => []TypeOK
<1>1. StackInv /\ MemoryOK => TypeOK
  BY StackIsTyped
<1> QED
  BY <1>1, CallsAreCorrect, PTL

-----------------------------------------------------------------------------
(* The version file *)

\* A call that is about to write a version has installed it.
VersionInv ==
  /\ VersionIsInstalled
  /\ calls # <<>> /\ Top.at \in {"openVersion", "writeVersion", "restart"}
       => Top.msg.version \in installed

LEMMA VersionNext ==
  TypeOK /\ StackInv /\ VersionInv /\ [Next]_vars => VersionInv'
<1> SUFFICES ASSUME TypeOK, StackInv, VersionInv, [Next]_vars PROVE VersionInv'
  OBVIOUS
<1> USE DEF flashVars, serverVars, historyVars, boundVars
<1>1. CASE ReadSenderIDs \/ WriteFirstIDs
  <2>1. UNCHANGED <<version, installed>> /\ calls' = calls /\ calls = <<>>
    BY <1>1 DEF ReadSenderIDs, WriteFirstIDs, StackInv
  <2> QED
    BY <2>1 DEF VersionInv, VersionIsInstalled
<1>2. CASE Receive
  <2>1. UNCHANGED <<version, installed>> /\ Top'.at = "loop"
    BY <1>2, StackReceives DEF Receive, Call
  <2> QED
    BY <2>1 DEF VersionInv, VersionIsInstalled
<1>3. CASE Dispatch \/ Ready \/ SetSender \/ OpenRecording \/ BodyComplete \/ OpenIDs
           \/ OtaFails \/ SendStatus
  <2>1. UNCHANGED <<version, installed, pc, inbox, sent>> /\ calls # <<>>
    BY <1>3 DEF Dispatch, Ready, SetSender, OpenRecording, BodyComplete, OpenIDs,
                OtaFails, SendStatus, At
  <2>2. \/ Return
        \/ MovesTo({"ready"}) \/ MovesTo({"ota"}) \/ MovesTo({"button"})
        \/ MovesTo({"download"}) \/ MovesTo({"body"}) \/ MovesTo({"ids"})
        \/ MovesTo({"write"}) \/ MovesTo({"forever"})
    BY <1>3, HandlerMoves DEF SendStatus
  <2>3. calls' # <<>> => Top'.at \notin {"openVersion", "writeVersion", "restart"}
    BY <2>1, <2>2, MoveKeepsStack, StackReturns
  <2> QED
    BY <2>1, <2>3 DEF VersionInv, VersionIsInstalled
<1>4. CASE WriteIDs
  <2>1. UNCHANGED <<version, installed, pc, inbox, sent>> /\ calls # <<>> /\ At("write")
    BY <1>4 DEF WriteIDs, At
  <2>2. Top'.at \in {"status", "button"}
    BY <1>4, <2>1, WriteMoves, MoveKeepsStack, StackBecomes
  <2> QED
    BY <2>1, <2>2 DEF VersionInv, VersionIsInstalled
<1>5. ASSUME NEW check \in BOOLEAN, NotSent(check) \/ BodyFails(check) PROVE VersionInv'
  <2>1. UNCHANGED <<version, installed, pc, inbox, sent>> /\ calls # <<>>
        /\ (At("download") \/ At("body")) /\ AfterDownload(check)
    BY <1>5 DEF NotSent, BodyFails, At
  <2>2. Top'.at \in {"download", "ids"}
    BY <2>1, DownloadMoves, MoveKeepsStack
  <2> QED
    BY <2>1, <2>2 DEF VersionInv, VersionIsInstalled
<1>6. CASE OtaInstalls \/ OpenVersion \/ WriteVersion
  <2>1. /\ UNCHANGED <<pc, inbox, sent>> /\ calls # <<>>
        /\ Top.msg.version \in installed' /\ installed \subseteq installed'
        /\ version' \in {version, 0, Top.msg.version}
    BY <1>6 DEF OtaInstalls, OpenVersion, WriteVersion, At, VersionInv
  <2>2. Top'.msg = Top.msg
    BY <1>6, <2>1, HandlerMoves, MoveKeepsStack
  <2> QED
    BY <2>1, <2>2 DEF VersionInv, VersionIsInstalled
<1>7. CASE EspRestart \/ PowerLoss
  <2>1. UNCHANGED <<version, installed>> /\ calls' = <<>>
    BY <1>7 DEF EspRestart, PowerLoss, Reboot
  <2> QED
    BY <2>1 DEF VersionInv, VersionIsInstalled
<1>8. CASE \/ SessionDrop \/ UNCHANGED vars \/ \E m \in Orders : SendOrder(m)
  <2>1. UNCHANGED <<version, installed, calls>>
    BY <1>8 DEF SessionDrop, SendOrder, vars
  <2> QED
    BY <2>1 DEF VersionInv, VersionIsInstalled, Top
<1> QED
  BY <1>1, <1>2, <1>3, <1>4, <1>5, <1>6, <1>7, <1>8
     DEF Next, FireBaseTask, Download, Ota

\* However often the power fails, the version file never names a firmware
\* that is not installed.
THEOREM VersionsAreInstalled == Spec => []VersionIsInstalled
<1>1. Init => VersionInv
  BY DEF Init, VersionInv, VersionIsInstalled
<1>2. VersionInv => VersionIsInstalled
  BY DEF VersionInv
<1>3. StackInv /\ MemoryOK => TypeOK
  BY StackIsTyped
<1> QED
  BY <1>1, <1>2, <1>3, CallsAreCorrect, VersionNext, PTL DEF Spec

-----------------------------------------------------------------------------
(* The sender file *)

\* The file differs from memory only between a change of a sender and the
\* writeSenderIDs that follows it - or since it was torn.
IdsInv ==
  pc = "listen" => \/ idFile = uuid \/ idFile = TornIds
                   \/ calls # <<>> /\ Top.at \in {"download", "body", "ids", "write"}

LEMMA IdsNext == TypeOK /\ StackInv /\ IdsInv /\ [Next]_vars => IdsInv'
<1> SUFFICES ASSUME TypeOK, StackInv, IdsInv, [Next]_vars PROVE IdsInv'
  OBVIOUS
<1> USE DEF flashVars, serverVars, historyVars, boundVars
<1>1. CASE ReadSenderIDs \/ WriteFirstIDs
  BY <1>1 DEF ReadSenderIDs, WriteFirstIDs, IdsInv
<1>2. CASE Receive
  <2>1. UNCHANGED <<idFile, uuid, pc>> /\ (calls = <<>> \/ Top.at = "loop")
    BY <1>2 DEF Receive, At
  <2> QED
    BY <2>1 DEF IdsInv, TornIds
<1>3. CASE Dispatch \/ Ready \/ OtaFails \/ OtaInstalls \/ OpenVersion \/ WriteVersion
           \/ SendStatus
  <2>1. UNCHANGED <<idFile, uuid, pc>>
        /\ Top.at \notin {"download", "body", "ids", "write"}
    BY <1>3 DEF Dispatch, Ready, OtaFails, OtaInstalls, OpenVersion, WriteVersion,
                SendStatus, At
  <2> QED
    BY <2>1 DEF IdsInv, TornIds
<1>4. CASE SetSender \/ OpenRecording \/ BodyComplete
  <2>1. UNCHANGED <<pc, inbox, sent>> /\ calls # <<>>
    BY <1>4 DEF SetSender, OpenRecording, BodyComplete, At
  <2>2. MovesTo({"download"}) \/ MovesTo({"body"}) \/ MovesTo({"ids"})
    BY <1>4, HandlerMoves
  <2>3. calls' # <<>> /\ Top'.at \in {"download", "body", "ids"}
    BY <2>1, <2>2, MoveKeepsStack
  <2> QED
    BY <2>3 DEF IdsInv
<1>5. ASSUME NEW check \in BOOLEAN, NotSent(check) \/ BodyFails(check) PROVE IdsInv'
  <2>1. UNCHANGED <<pc, inbox, sent>> /\ calls # <<>>
        /\ (At("download") \/ At("body")) /\ AfterDownload(check)
    BY <1>5 DEF NotSent, BodyFails, At
  <2>2. calls' # <<>> /\ Top'.at \in {"download", "ids"}
    BY <2>1, DownloadMoves, MoveKeepsStack
  <2> QED
    BY <2>2 DEF IdsInv
<1>6. CASE OpenIDs
  BY <1>6 DEF OpenIDs, IdsInv, TornIds
<1>7. CASE WriteIDs
  BY <1>7 DEF WriteIDs, IdsInv
<1>8. CASE EspRestart \/ PowerLoss
  BY <1>8 DEF EspRestart, PowerLoss, Reboot, IdsInv
<1>9. CASE \/ SessionDrop \/ UNCHANGED vars \/ \E m \in Orders : SendOrder(m)
  <2>1. UNCHANGED <<idFile, uuid, pc, calls>>
    BY <1>9 DEF SessionDrop, SendOrder, vars
  <2> QED
    BY <2>1 DEF IdsInv, Top, TornIds
<1> QED
  BY <1>1, <1>2, <1>3, <1>4, <1>5, <1>6, <1>7, <1>8, <1>9
     DEF Next, FireBaseTask, Download, Ota

\* However handlers nest and whatever fails, between commands the next start
\* would read the senders that memory holds.
THEOREM IdsAreOnFile == Spec => []IdsOnFile
<1>1. Init => IdsInv
  BY DEF Init, IdsInv
<1>2. IdsInv => IdsOnFile
  BY DEF IdsInv, IdsOnFile
<1>3. StackInv /\ MemoryOK => TypeOK
  BY StackIsTyped
<1> QED
  BY <1>1, <1>2, <1>3, CallsAreCorrect, IdsNext, PTL DEF Spec

-----------------------------------------------------------------------------
(* The recordings *)

Early == {"loop", "ready", "button", "download", "body"}

\* The call has yet to fetch the button's recording.
Due(f, c) ==
  /\ f.msg.type = "DOWNLOAD"
  /\ \E n \in DOMAIN f.msg.parts :
       f.msg.parts[n][1] = c /\ (n > f.k \/ (n = f.k /\ f.at \in Early))

SomeDue(c)  == \E j \in 1..Len(calls) : Due(calls[j], c)
OnItsWay(c) == \E j \in 1..Len(inbox) : Names(inbox[j], c)

\* A recording is the newest one, or a command is on its way or being handled
\* that will fetch the newest one.
PendInv == mishaps \subseteq {"nested"} =>
  \A c \in Buttons \ failed : recording[c] = server[c] \/ OnItsWay(c) \/ SomeDue(c)

LEMMA MoveKeepsDue ==
  ASSUME StackInv, TypeOK, calls # <<>>, NEW L, MovesTo(L),
         UNCHANGED <<pc, inbox, sent>>, NEW c,
         Top.msg.type = "DOWNLOAD" /\ Top.at \in Early => L \subseteq Early \/ c # Part[1]
  PROVE  SomeDue(c) => SomeDue(c)'
<1>1. /\ Top'.msg = Top.msg /\ Top'.k = Top.k /\ Top'.at \in L /\ Len(calls') = Len(calls)
      /\ calls' # <<>> /\ StackInv'
      /\ \A j \in 1..Len(calls)-1 : calls'[j] = calls[j]
  BY MoveKeepsStack
<1>2. Len(calls) \in Nat \ {0} /\ Top = calls[Len(calls)] /\ Top' = calls'[Len(calls)]
  <2>1. calls \in Seq(Frames) /\ calls' \in Seq(Frames)
    BY <1>1 DEF StackInv
  <2> QED
    BY <1>1, <2>1, LastOfStack DEF Top
<1> SUFFICES ASSUME NEW j \in 1..Len(calls), Due(calls[j], c)
             PROVE  \E l \in 1..Len(calls) : Due(calls'[l], c)
  BY <1>1 DEF SomeDue
<1>3. CASE j = Len(calls)
  <2>1. PICK n \in DOMAIN Top.msg.parts :
          Top.msg.parts[n][1] = c /\ (n > Top.k \/ (n = Top.k /\ Top.at \in Early))
    BY <1>2, <1>3 DEF Due
  <2>2. Top.msg.type = "DOWNLOAD"
    BY <1>2, <1>3 DEF Due
  <2>3. n > Top.k \/ (n = Top.k /\ Top'.at \in Early)
    BY <1>1, <2>1, <2>2 DEF Part
  <2>4. Due(Top', c)
    BY <1>1, <2>1, <2>2, <2>3 DEF Due
  <2> QED
    BY <1>2, <1>3, <2>4
<1>4. CASE j # Len(calls)
  <2>1. j \in 1..Len(calls)-1
    BY <1>2, <1>4
  <2> QED
    BY <1>1, <2>1
<1> QED
  BY <1>3, <1>4

\* WriteIDs goes to the next part, or there is none.
LEMMA WriteKeepsDue ==
  ASSUME StackInv, TypeOK, WriteIDs, NEW c
  PROVE  SomeDue(c) => SomeDue(c)'
<1>1. UNCHANGED <<pc, inbox, sent>> /\ calls # <<>> /\ At("write") /\ Top.at = "write"
  BY DEF WriteIDs, serverVars, boundVars, At
<1>2. CASE MovesTo({"status"})
  BY <1>1, <1>2, MoveKeepsDue DEF Early
<1>3. ASSUME NEW g \in Frames, Becomes(g), FrameOK(g), g.msg = Top.msg,
             g.k = Top.k + 1, g.at = "button"
      PROVE  SomeDue(c) => SomeDue(c)'
  <2>1. /\ StackInv' /\ calls' # <<>> /\ Top' = g /\ Len(calls') = Len(calls)
        /\ \A j \in 1..Len(calls)-1 : calls'[j] = calls[j]
    BY <1>1, <1>3, StackBecomes
  <2>2. Len(calls) \in Nat \ {0} /\ Top = calls[Len(calls)] /\ g = calls'[Len(calls)]
    <3>1. calls \in Seq(Frames) /\ calls' \in Seq(Frames)
      BY <2>1 DEF StackInv
    <3> QED
      BY <1>1, <2>1, <3>1, LastOfStack DEF Top
  <2> SUFFICES ASSUME NEW j \in 1..Len(calls), Due(calls[j], c)
               PROVE  \E l \in 1..Len(calls) : Due(calls'[l], c)
    BY <2>1 DEF SomeDue
  <2>3. CASE j = Len(calls)
    <3>1. PICK n \in DOMAIN Top.msg.parts : Top.msg.parts[n][1] = c /\ n > Top.k
      BY <1>1, <2>2, <2>3 DEF Due, Early
    <3>2. Top.msg.type = "DOWNLOAD" /\ Top.msg \in Orders /\ Top.k \in Nat
      BY <1>1, <2>2, <2>3, TopIsFrame DEF Due, Frames
    <3>3. n \in Nat
      BY <3>2, OrderKinds
    <3>4. n > g.k \/ (n = g.k /\ g.at \in Early)
      BY <1>3, <3>1, <3>2, <3>3 DEF Early
    <3>5. Due(g, c)
      BY <1>3, <3>1, <3>2, <3>4 DEF Due
    <3> QED
      BY <2>2, <2>3, <3>5
  <2>4. CASE j # Len(calls)
    <3>1. j \in 1..Len(calls)-1
      BY <2>2, <2>4
    <3> QED
      BY <2>1, <3>1
  <2> QED
    BY <2>3, <2>4
<1> QED
  BY <1>1, <1>2, <1>3, WriteMoves

\* A call that returns has fetched what its command names.
LEMMA ReturnKeepsDue ==
  ASSUME StackInv, TypeOK, calls # <<>>, Return, UNCHANGED <<pc, inbox, sent>>,
         Top.msg.type = "OTA" \/ Top.at = "status", NEW c
  PROVE  SomeDue(c) => SomeDue(c)'
<1>1. /\ Len(calls') = Len(calls) - 1
      /\ \A j \in 1..Len(calls)-1 : calls'[j] = calls[j]
  BY StackReturns
<1>2. Len(calls) \in Nat \ {0} /\ Top = calls[Len(calls)] /\ FrameOK(Top)
  BY TopIsFrame
<1>3. ~Due(Top, c)
  <2>1. SUFFICES ASSUME Due(Top, c) PROVE FALSE
    OBVIOUS
  <2>2. Top.msg.type = "DOWNLOAD" /\ Top.at = "status" /\ Top.k = Len(Top.msg.parts)
    BY <1>2, <2>1 DEF Due, FrameOK
  <2>3. PICK n \in DOMAIN Top.msg.parts : n > Top.k
    BY <2>1, <2>2 DEF Due, Early
  <2>4. Top.msg.parts \in Seq(Buttons \X Senders)
    BY <2>2, TopIsFrame, OrderKinds
  <2> QED
    BY <2>2, <2>3, <2>4, LenProperties
<1>4. ASSUME NEW j \in 1..Len(calls), Due(calls[j], c)
      PROVE  \E l \in 1..Len(calls') : Due(calls'[l], c)
  <2>1. j \in 1..Len(calls)-1
    BY <1>2, <1>3, <1>4
  <2> QED
    BY <1>1, <2>1, <1>4
<1> QED
  BY <1>4 DEF SomeDue

\* A command that arrives becomes a call that has yet to fetch what it names.
LEMMA ReceiveKeepsDue ==
  ASSUME StackInv, TypeOK, Receive, NEW c
  PROVE  OnItsWay(c) \/ SomeDue(c) => OnItsWay(c)' \/ SomeDue(c)'
<1>1. /\ calls' # <<>> /\ Top' = Call(Head(inbox)) /\ Head(inbox) \in Orders
      /\ Len(calls') = Len(calls) + 1 /\ StackInv'
      /\ \A j \in 1..Len(calls) : calls'[j] = calls[j]
  BY StackReceives
<1>2. calls \in Seq(Frames) /\ calls' \in Seq(Frames) /\ inbox \in Seq(Orders)
      /\ inbox # <<>> /\ inbox' = Tail(inbox)
  BY <1>1 DEF StackInv, Receive
<1>3. Len(calls) \in Nat /\ Top' = calls'[Len(calls) + 1]
  BY <1>1, <1>2, LastOfStack, LenProperties DEF Top
<1>4. /\ Len(inbox) \in Nat \ {0} /\ Len(inbox') = Len(inbox) - 1 /\ Head(inbox) = inbox[1]
      /\ \A j \in 1..Len(inbox)-1 : inbox'[j] = inbox[j + 1]
  BY <1>2, HeadTailProperties, EmptySeq, LenProperties
<1>5. ASSUME NEW j \in 1..Len(calls), Due(calls[j], c) PROVE SomeDue(c)'
  <2>1. j \in 1..Len(calls') /\ calls'[j] = calls[j]
    BY <1>1, <1>3
  <2> QED
    BY <1>5, <2>1 DEF SomeDue
<1>6. ASSUME NEW j \in 1..Len(inbox), Names(inbox[j], c)
      PROVE  OnItsWay(c)' \/ SomeDue(c)'
  <2>1. CASE j = 1
    <3>1. Names(Head(inbox), c)
      BY <1>4, <1>6, <2>1
    <3>2. PICK n \in DOMAIN Head(inbox).parts : Head(inbox).parts[n][1] = c
      BY <3>1 DEF Names
    <3>3. Head(inbox).type = "DOWNLOAD" /\ n \in Nat /\ n >= 1
      <4>1. Head(inbox).type = "DOWNLOAD"
        BY <3>1 DEF Names
      <4>2. Head(inbox).parts \in Seq(Buttons \X Senders)
        BY <1>1, <4>1, OrderKinds
      <4> QED
        BY <3>2, <4>1, <4>2, LenProperties
    <3>4. Due(Top', c)
      <4>1. /\ Top'.msg = Head(inbox) /\ Top'.k = 1 /\ Top'.at = "loop"
        BY <1>1 DEF Call
      <4>2. n > 1 \/ n = 1
        BY <3>3
      <4> QED
        BY <3>2, <3>3, <4>1, <4>2 DEF Due, Early
    <3>5. Len(calls) + 1 \in 1..Len(calls')
      BY <1>1, <1>3
    <3> QED
      BY <1>3, <3>4, <3>5 DEF SomeDue
  <2>2. CASE j # 1
    <3>1. j - 1 \in 1..Len(inbox') /\ inbox'[j - 1] = inbox[j]
      BY <1>4, <2>2
    <3> QED
      BY <1>6, <3>1 DEF OnItsWay
  <2> QED
    BY <2>1, <2>2
<1> QED
  BY <1>5, <1>6 DEF SomeDue, OnItsWay

\* A command that is sent is on its way, or it was lost.
LEMMA SendKeepsDue ==
  ASSUME StackInv, TypeOK, NEW m \in Orders, SendOrder(m), NEW c \in Buttons,
         mishaps' \subseteq {"nested"}
  PROVE  /\ OnItsWay(c) \/ SomeDue(c) => OnItsWay(c)' \/ SomeDue(c)'
         /\ Names(m, c) => OnItsWay(c)'
         /\ ~Names(m, c) => server'[c] = server[c]
<1>1. /\ pc = "listen" /\ inbox' = Append(inbox, m) /\ calls' = calls
      /\ inbox \in Seq(Orders)
  BY DEF SendOrder, StackInv
<1>2. /\ Len(inbox) \in Nat /\ Len(inbox') = Len(inbox) + 1 /\ inbox'[Len(inbox) + 1] = m
      /\ \A j \in 1..Len(inbox) : inbox'[j] = inbox[j]
  BY <1>1, AppendProperties, LenProperties
<1>3. ASSUME NEW j \in 1..Len(inbox), Names(inbox[j], c) PROVE OnItsWay(c)'
  <2>1. j \in 1..Len(inbox') /\ inbox'[j] = inbox[j]
    BY <1>2
  <2> QED
    BY <1>3, <2>1 DEF OnItsWay
<1>4. SomeDue(c) => SomeDue(c)'
  BY <1>1 DEF SomeDue
<1>5. Names(m, c) => OnItsWay(c)'
  BY <1>2 DEF OnItsWay
<1>6. ~Names(m, c) => server'[c] = server[c]
  <2>1. m.type = "OTA" => server' = server
    BY DEF SendOrder
  <2>2. ASSUME m.type = "DOWNLOAD", ~Names(m, c) PROVE server'[c] = server[c]
    BY <2>2, SenderOfOther DEF SendOrder
  <2> QED
    BY <2>1, <2>2, OrderKinds
<1> QED
  BY <1>3, <1>4, <1>5, <1>6 DEF OnItsWay

\* A restart that cuts nothing off interrupts no download.
LEMMA QuietReboot ==
  ASSUME StackInv, TypeOK, LoseInbox, mishaps' \subseteq {"nested"}, NEW c
  PROVE  /\ ~OnItsWay(c) /\ ~SomeDue(c) /\ pc # "first" /\ Len(calls) <= 1
         /\ mishaps' = mishaps
<1>1. inbox = <<>> /\ ~CutsOff /\ mishaps' = mishaps
  BY DEF LoseInbox
<1>2. Len(inbox) = 0 /\ calls \in Seq(Frames) /\ Len(calls) \in Nat
  BY <1>1, LenProperties DEF StackInv
<1>3. pc # "first" /\ Len(calls) <= 1 /\ (calls = <<>> \/ Top.at = "restart")
  BY <1>1, <1>2 DEF CutsOff, At
<1>4. ASSUME NEW j \in 1..Len(calls), Due(calls[j], c) PROVE FALSE
  <2>1. calls # <<>> /\ j = Len(calls)
    BY <1>2, <1>3, EmptySeq
  <2>2. Top = calls[j] /\ Top \in Frames /\ FrameOK(Top)
    BY <2>1, TopIsFrame
  <2>3. Top.msg.type = "OTA"
    BY <1>3, <2>1, <2>2, FrameKinds DEF Updating
  <2> QED
    BY <1>4, <2>2, <2>3 DEF Due
<1> QED
  BY <1>1, <1>2, <1>3, <1>4 DEF OnItsWay, SomeDue

LEMMA PendNext == TypeOK /\ StackInv /\ PendInv /\ [Next]_vars => PendInv'
<1> SUFFICES ASSUME TypeOK, StackInv, PendInv, [Next]_vars,
                    mishaps' \subseteq {"nested"}, NEW c \in Buttons \ failed'
             PROVE  recording'[c] = server'[c] \/ OnItsWay(c)' \/ SomeDue(c)'
  BY DEF PendInv
<1> USE DEF flashVars, serverVars, historyVars, boundVars
<1>a. ASSUME mishaps \subseteq mishaps', failed \subseteq failed'
      PROVE  c \in Buttons \ failed
             /\ (recording[c] = server[c] \/ OnItsWay(c) \/ SomeDue(c))
  BY <1>a DEF PendInv
<1>b. recording \in [Buttons -> Senders \cup {NoSender, Torn}]
  BY DEF TypeOK
<1>1. CASE ReadSenderIDs \/ WriteFirstIDs
  <2>1. UNCHANGED <<recording, server, inbox, calls, mishaps, failed>>
    BY <1>1 DEF ReadSenderIDs, WriteFirstIDs
  <2> QED
    BY <1>a, <2>1 DEF OnItsWay, SomeDue
<1>2. CASE Receive
  <2>1. UNCHANGED <<recording, server, failed>> /\ mishaps \subseteq mishaps'
    BY <1>2 DEF Receive
  <2> QED
    BY <1>2, <1>a, <2>1, ReceiveKeepsDue
<1>3. CASE Dispatch \/ Ready \/ SetSender \/ OpenIDs \/ OtaFails \/ OtaInstalls
           \/ OpenVersion \/ WriteVersion
  <2>1. UNCHANGED <<recording, server, pc, inbox, sent, mishaps, failed>>
        /\ calls # <<>>
    BY <1>3 DEF Dispatch, Ready, SetSender, OpenIDs, OtaFails, OtaInstalls,
                OpenVersion, WriteVersion, At
  <2>2. Top.at \in Updating => Top.msg.type = "OTA"
    BY <2>1, TopIsFrame, FrameKinds
  <2>3. SomeDue(c) => SomeDue(c)'
    <3>1. CASE Dispatch
      <4>1. \/ Goto("ready") /\ Top.msg.type = "DOWNLOAD"
            \/ Return /\ Top.msg.type = "OTA"
            \/ Goto("ota") /\ Top.msg.type = "OTA"
        BY <2>1, <3>1, TopIsFrame, OrderKinds DEF Dispatch
      <4>2. Goto("ready") /\ Top.msg.type = "DOWNLOAD" => MovesTo({"ready"})
        BY <2>1, GotoMoves DEF Loading
      <4>3. Goto("ota") /\ Top.msg.type = "OTA" => MovesTo({"ota"})
        BY <2>1, GotoMoves DEF Updating
      <4>4. Return /\ Top.msg.type = "OTA" => (SomeDue(c) => SomeDue(c)')
        BY <2>1, ReturnKeepsDue
      <4>5. {"ready"} \subseteq Early
        BY DEF Early
      <4> QED
        BY <2>1, <4>1, <4>2, <4>3, <4>4, <4>5, MoveKeepsDue
    <3>2. CASE Ready
      BY <2>1, <3>2, HandlerMoves, MoveKeepsDue DEF Early
    <3>3. CASE SetSender
      BY <2>1, <3>3, HandlerMoves, MoveKeepsDue DEF Early
    <3>4. CASE OpenIDs
      BY <2>1, <3>4, HandlerMoves, MoveKeepsDue DEF Early, OpenIDs, At
    <3>5. CASE OtaFails \/ OtaInstalls \/ OpenVersion \/ WriteVersion
      <4>1. Top.msg.type = "OTA"
        BY <2>2, <3>5 DEF OtaFails, OtaInstalls, OpenVersion, WriteVersion, At, Updating
      <4>2. \/ MovesTo({"forever"}) \/ MovesTo({"openVersion"})
            \/ MovesTo({"writeVersion"}) \/ MovesTo({"restart"})
        BY <3>5, HandlerMoves
      <4> QED
        BY <2>1, <4>1, <4>2, MoveKeepsDue
    <3> QED
      BY <1>3, <3>1, <3>2, <3>3, <3>4, <3>5
  <2> QED
    BY <1>a, <2>1, <2>3 DEF OnItsWay
<1>4. CASE OpenRecording
  <2>1. UNCHANGED <<server, pc, inbox, sent, mishaps, failed>> /\ calls # <<>>
        /\ recording' = [recording EXCEPT ![Part[1]] = Torn] /\ Top.at = "download"
    BY <1>4 DEF OpenRecording, At
  <2>2. MovesTo({"body"})
    BY <1>4, HandlerMoves
  <2>3. SomeDue(c) => SomeDue(c)'
    BY <2>1, <2>2, MoveKeepsDue DEF Early
  <2>4. CASE c = Part[1]
    <3>1. /\ Top'.msg = Top.msg /\ Top'.k = Top.k /\ Top'.at = "body"
          /\ Len(calls') = Len(calls) /\ calls' # <<>> /\ StackInv'
      BY <2>1, <2>2, MoveKeepsStack
    <3>2. calls' \in Seq(Frames)
      BY <3>1 DEF StackInv
    <3>3. Top' = calls'[Len(calls')] /\ Len(calls') \in 1..Len(calls')
      BY <3>1, <3>2, LastOfStack DEF Top
    <3>4. Top.msg.type = "DOWNLOAD" /\ Top.k \in DOMAIN Top.msg.parts
      BY <2>1, TopIsFrame, FrameKinds DEF Loading
    <3>5. Due(Top', c)
      BY <2>4, <3>1, <3>4 DEF Due, Early, Part
    <3> QED
      BY <3>3, <3>5 DEF SomeDue
  <2>5. CASE c # Part[1]
    <3>1. recording'[c] = recording[c]
      BY <1>b, <2>1, <2>5
    <3> QED
      BY <1>a, <2>1, <2>3, <3>1 DEF OnItsWay
  <2> QED
    BY <2>4, <2>5
<1>5. CASE BodyComplete
  <2>1. UNCHANGED <<server, pc, inbox, sent, mishaps, failed>> /\ calls # <<>>
        /\ recording' = [recording EXCEPT ![Part[1]] = server[Part[1]]]
    BY <1>5 DEF BodyComplete, At
  <2>2. CASE c = Part[1]
    BY <1>b, <2>1, <2>2
  <2>3. CASE c # Part[1]
    <3>1. recording'[c] = recording[c]
      BY <1>b, <2>1, <2>3
    <3>2. SomeDue(c) => SomeDue(c)'
      BY <1>5, <2>1, <2>3, HandlerMoves, MoveKeepsDue
    <3> QED
      BY <1>a, <2>1, <3>1, <3>2 DEF OnItsWay
  <2> QED
    BY <2>2, <2>3
<1>6. ASSUME NEW check \in BOOLEAN, NotSent(check) \/ BodyFails(check)
      PROVE  recording'[c] = server'[c] \/ OnItsWay(c)' \/ SomeDue(c)'
  <2>1. UNCHANGED <<recording, server, pc, inbox, sent, mishaps>> /\ calls # <<>>
        /\ (At("download") \/ At("body")) /\ AfterDownload(check)
        /\ failed' = failed \cup {Part[1]}
    BY <1>6 DEF NotSent, BodyFails, Fails, At
  <2>2. c # Part[1]
    BY <2>1
  <2>3. SomeDue(c) => SomeDue(c)'
    BY <2>1, <2>2, DownloadMoves, MoveKeepsDue
  <2> QED
    BY <1>a, <2>1, <2>3 DEF OnItsWay
<1>7. CASE WriteIDs
  <2>1. UNCHANGED <<recording, server, inbox, mishaps, failed>>
    BY <1>7 DEF WriteIDs
  <2> QED
    BY <1>7, <1>a, <2>1, WriteKeepsDue DEF OnItsWay
<1>8. CASE SendStatus
  <2>1. UNCHANGED <<recording, server, pc, inbox, sent, mishaps, failed>>
        /\ calls # <<>> /\ Return /\ Top.at = "status"
    BY <1>8 DEF SendStatus, At
  <2> QED
    BY <1>a, <2>1, ReturnKeepsDue DEF OnItsWay
<1>9. CASE EspRestart \/ PowerLoss
  <2>1. UNCHANGED <<recording, server, failed>> /\ LoseInbox
    BY <1>9 DEF EspRestart, PowerLoss, Reboot
  <2> QED
    BY <1>a, <2>1, QuietReboot
<1>10. CASE SessionDrop
  BY <1>10 DEF SessionDrop
<1>11. ASSUME NEW m \in Orders, SendOrder(m)
       PROVE  recording'[c] = server'[c] \/ OnItsWay(c)' \/ SomeDue(c)'
  <2>1. UNCHANGED <<recording, failed>> /\ mishaps \subseteq mishaps'
    BY <1>11 DEF SendOrder
  <2> QED
    BY <1>11, <1>a, <2>1, SendKeepsDue
<1>12. CASE UNCHANGED vars
  <2>1. UNCHANGED <<recording, server, inbox, calls, mishaps, failed>>
    BY <1>12 DEF vars
  <2> QED
    BY <1>a, <2>1 DEF OnItsWay, SomeDue
<1> QED
  BY <1>1, <1>2, <1>3, <1>4, <1>5, <1>6, <1>7, <1>8, <1>9, <1>10, <1>11, <1>12
     DEF Next, FireBaseTask, Download, Ota

\* However deep handlers nest, the recordings the toy ends up with are the
\* newest ones, but for those of which a transfer failed or a command was lost.
THEOREM RecordingsAreNewest == Spec => []NewestRecording
<1>1. Init => PendInv
  BY DEF Init, PendInv, All
<1>2. StackInv /\ PendInv => NewestRecording
  <2> SUFFICES ASSUME PendInv, AtRest, mishaps \subseteq {"nested"},
                      NEW c \in Buttons \ failed
               PROVE  recording[c] = server[c]
    BY DEF NewestRecording
  <2>1. Len(calls) = 0 /\ Len(inbox) = 0
    BY DEF AtRest
  <2>2. ~OnItsWay(c) /\ ~SomeDue(c)
    BY <2>1 DEF OnItsWay, SomeDue
  <2> QED
    BY <2>2 DEF PendInv
<1>3. StackInv /\ MemoryOK => TypeOK
  BY StackIsTyped
<1> QED
  BY <1>1, <1>2, <1>3, CallsAreCorrect, PendNext, PTL DEF Spec

-----------------------------------------------------------------------------
(* The credits *)

Unnoted == {"loop", "ready", "button"}

\* The call has yet to note the button's sender.
Unset(f, c) ==
  /\ f.msg.type = "DOWNLOAD"
  /\ \E n \in DOMAIN f.msg.parts :
       f.msg.parts[n][1] = c /\ (n > f.k \/ (n = f.k /\ f.at \in Unnoted))

\* The command credits the button to nobody but s.
Says(m, c, s) == \A n \in DOMAIN m.parts : m.parts[n][1] = c => m.parts[n][2] = s

\* The newest command for a button names the sender of the server's recording.
InboxSays ==
  \A c \in Buttons : \A j \in 1..Len(inbox) :
    /\ Names(inbox[j], c)
    /\ \A l \in 1..Len(inbox) : l > j => ~Names(inbox[l], c)
    => Says(inbox[j], c, server[c])

CallSays ==
  \A c \in Buttons : ~OnItsWay(c) /\ calls # <<>> /\ Names(Top.msg, c)
                       => Says(Top.msg, c, server[c])

\* A button is credited to that sender, or a command will see to it.
Credited ==
  pc = "listen" => \A c \in Buttons : \/ uuid[c] = server[c] \/ OnItsWay(c)
                                      \/ calls # <<>> /\ Unset(Top, c)

\* And so it will be after a start.
FileSays ==
  /\ pc = "read" => \/ idFile = All(NoFile) /\ \A c \in Buttons : server[c] = NoSender
                    \/ \A c \in Buttons : idFile[c] = server[c]
  /\ pc = "read" => uuid = All(NoSender)
  /\ pc = "first" => \A c \in Buttons : uuid[c] = server[c]
  /\ pc = "listen" => \/ idFile = uuid
                      \/ calls # <<>> /\ Top.at \in {"download", "body", "ids", "write"}

CreditInv ==
  mishaps = {} => Len(calls) <= 1 /\ InboxSays /\ CallSays /\ Credited /\ FileSays

\* The next part of a command is noted after this one.
LEMMA UnsetMoves ==
  ASSUME StackInv, TypeOK, calls # <<>>, NEW L, MovesTo(L),
         UNCHANGED <<pc, inbox, sent>>, NEW c,
         Top.msg.type = "DOWNLOAD" /\ Top.at \in Unnoted => L \subseteq Unnoted \/ c # Part[1]
  PROVE  /\ Unset(Top, c) => Unset(Top', c)
         /\ calls' # <<>> /\ Top'.msg = Top.msg /\ Top'.at \in L
         /\ Len(calls') = Len(calls)
<1>1. /\ Top'.msg = Top.msg /\ Top'.k = Top.k /\ Top'.at \in L
      /\ calls' # <<>> /\ Len(calls') = Len(calls)
  BY MoveKeepsStack
<1>2. ASSUME Unset(Top, c) PROVE Unset(Top', c)
  <2>1. PICK n \in DOMAIN Top.msg.parts :
          Top.msg.parts[n][1] = c /\ (n > Top.k \/ (n = Top.k /\ Top.at \in Unnoted))
    BY <1>2 DEF Unset
  <2>2. Top.msg.type = "DOWNLOAD"
    BY <1>2 DEF Unset
  <2>3. n > Top.k \/ (n = Top.k /\ Top'.at \in Unnoted)
    BY <1>1, <2>1, <2>2 DEF Part
  <2> QED
    BY <1>1, <2>1, <2>2, <2>3 DEF Unset
<1> QED
  BY <1>1, <1>2

LEMMA UnsetWrite ==
  ASSUME StackInv, TypeOK, WriteIDs, NEW c
  PROVE  /\ Unset(Top, c) => Unset(Top', c)
         /\ calls' # <<>> /\ Top'.msg = Top.msg /\ Len(calls') = Len(calls)
<1>1. UNCHANGED <<pc, inbox, sent>> /\ calls # <<>> /\ At("write") /\ Top.at = "write"
  BY DEF WriteIDs, serverVars, boundVars, At
<1>2. CASE MovesTo({"status"})
  BY <1>1, <1>2, UnsetMoves DEF Unnoted
<1>3. ASSUME NEW g \in Frames, Becomes(g), FrameOK(g), g.msg = Top.msg,
             g.k = Top.k + 1, g.at = "button"
      PROVE  /\ Unset(Top, c) => Unset(Top', c)
             /\ calls' # <<>> /\ Top'.msg = Top.msg /\ Len(calls') = Len(calls)
  <2>1. calls' # <<>> /\ Top' = g /\ Len(calls') = Len(calls)
    BY <1>1, <1>3, StackBecomes
  <2>2. ASSUME Unset(Top, c) PROVE Unset(g, c)
    <3>1. PICK n \in DOMAIN Top.msg.parts : Top.msg.parts[n][1] = c /\ n > Top.k
      BY <1>1, <2>2 DEF Unset, Unnoted
    <3>2. Top.msg.type = "DOWNLOAD" /\ Top.msg \in Orders /\ Top.k \in Nat
      BY <1>1, <2>2, TopIsFrame DEF Unset, Frames
    <3>3. n \in Nat
      BY <3>2, OrderKinds
    <3>4. n > g.k \/ (n = g.k /\ g.at \in Unnoted)
      BY <1>3, <3>1, <3>2, <3>3 DEF Unnoted
    <3> QED
      BY <1>3, <3>1, <3>2, <3>4 DEF Unset
  <2> QED
    BY <1>3, <2>1, <2>2
<1> QED
  BY <1>1, <1>2, <1>3, WriteMoves

LEMMA UnsetEnds ==
  ASSUME StackInv, TypeOK, calls # <<>>, NEW c,
         Top.msg.type = "OTA" \/ Top.at = "status"
  PROVE  ~Unset(Top, c)
<1> SUFFICES ASSUME Unset(Top, c) PROVE FALSE
  OBVIOUS
<1>1. FrameOK(Top)
  BY TopIsFrame
<1>2. Top.msg.type = "DOWNLOAD" /\ Top.at = "status" /\ Top.k = Len(Top.msg.parts)
  BY <1>1 DEF Unset, FrameOK
<1>3. PICK n \in DOMAIN Top.msg.parts : n > Top.k
  BY <1>2 DEF Unset, Unnoted
<1>4. Top.msg.parts \in Seq(Buttons \X Senders)
  BY <1>2, TopIsFrame, OrderKinds
<1> QED
  BY <1>2, <1>3, <1>4, LenProperties

\* A step of a handler that notes no sender.
LEMMA CreditMoves ==
  ASSUME CreditInv, calls # <<>>, calls' # <<>>, Len(calls') = Len(calls),
         Top'.msg = Top.msg, pc = "listen",
         UNCHANGED <<pc, inbox, server, uuid, mishaps>>,
         \A c \in Buttons : Unset(Top, c) => Unset(Top', c),
         mishaps' = {} => \/ idFile' = uuid
                          \/ Top'.at \in {"download", "body", "ids", "write"}
  PROVE  CreditInv'
<1> SUFFICES ASSUME mishaps' = {}
             PROVE  (Len(calls) <= 1 /\ InboxSays /\ CallSays /\ Credited /\ FileSays)'
  BY DEF CreditInv
<1>1. Len(calls) <= 1 /\ InboxSays /\ CallSays /\ Credited
  BY DEF CreditInv
<1>2. InboxSays'
  BY <1>1 DEF InboxSays
<1>3. CallSays'
  BY <1>1 DEF CallSays, OnItsWay
<1>4. Credited'
  BY <1>1 DEF Credited, OnItsWay
<1>5. FileSays'
  BY DEF FileSays
<1> QED
  BY <1>1, <1>2, <1>3, <1>4, <1>5

\* The innermost call returns, and it was the only one.
LEMMA CreditReturns ==
  ASSUME StackInv, TypeOK, CreditInv, calls # <<>>, Return,
         UNCHANGED <<pc, inbox, sent, server, uuid, idFile, mishaps>>,
         Top.msg.type = "OTA" \/ Top.at = "status", Top.at \in {"loop", "status"}
  PROVE  CreditInv'
<1> SUFFICES ASSUME mishaps' = {}
             PROVE  (Len(calls) <= 1 /\ InboxSays /\ CallSays /\ Credited /\ FileSays)'
  BY DEF CreditInv
<1>1. Len(calls) <= 1 /\ InboxSays /\ CallSays /\ Credited /\ FileSays
  BY DEF CreditInv
<1>2. Len(calls) \in Nat \ {0} /\ pc = "listen"
  BY TopIsFrame
<1>3. Len(calls') = 0 /\ calls' = <<>>
  <2>1. Len(calls') = Len(calls) - 1 /\ StackInv'
    BY StackReturns
  <2>2. Len(calls') = 0 /\ calls' \in Seq(Frames)
    BY <1>1, <1>2, <2>1 DEF StackInv
  <2> QED
    BY <2>2, EmptySeq
<1>4. InboxSays'
  BY <1>1 DEF InboxSays
<1>5. CallSays'
  BY <1>3 DEF CallSays
<1>6. Credited'
  BY <1>1, UnsetEnds DEF Credited, OnItsWay
<1>7. FileSays'
  BY <1>1, <1>2 DEF FileSays
<1> QED
  BY <1>3, <1>4, <1>5, <1>6, <1>7

LEMMA CreditReceives ==
  ASSUME StackInv, TypeOK, CreditInv, Receive
  PROVE  CreditInv'
<1> SUFFICES ASSUME mishaps' = {}
             PROVE  (Len(calls) <= 1 /\ InboxSays /\ CallSays /\ Credited /\ FileSays)'
  BY DEF CreditInv
<1>1. /\ calls = <<>> /\ mishaps = {} /\ pc = "listen" /\ pc' = pc
      /\ UNCHANGED <<server, uuid, idFile>>
  BY DEF Receive, flashVars
<1>2. InboxSays /\ Credited /\ FileSays
  BY <1>1 DEF CreditInv
<1>3. /\ calls' # <<>> /\ Top' = Call(Head(inbox)) /\ Head(inbox) \in Orders
      /\ Len(calls') = 1
  BY <1>1, StackReceives
<1>4. inbox \in Seq(Orders) /\ inbox # <<>> /\ inbox' = Tail(inbox)
  BY DEF StackInv, Receive
<1>5. /\ Len(inbox) \in Nat \ {0} /\ Len(inbox') = Len(inbox) - 1 /\ Head(inbox) = inbox[1]
      /\ \A j \in 1..Len(inbox)-1 : inbox'[j] = inbox[j + 1]
  BY <1>4, HeadTailProperties, EmptySeq, LenProperties
<1>6. \A j \in 1..Len(inbox) : j = 1 \/ (j - 1 \in 1..Len(inbox') /\ inbox'[j - 1] = inbox[j])
  BY <1>5
<1>7. InboxSays'
  <2> SUFFICES ASSUME NEW c \in Buttons, NEW j \in 1..Len(inbox'), Names(inbox'[j], c),
                      \A l \in 1..Len(inbox') : l > j => ~Names(inbox'[l], c)
               PROVE  Says(inbox'[j], c, server[c])
    BY <1>1 DEF InboxSays
  <2>1. j + 1 \in 1..Len(inbox) /\ inbox'[j] = inbox[j + 1]
    BY <1>5
  <2>2. ASSUME NEW l \in 1..Len(inbox), l > j + 1 PROVE ~Names(inbox[l], c)
    <3>1. l - 1 \in 1..Len(inbox') /\ inbox'[l - 1] = inbox[l] /\ l - 1 > j
      BY <1>5, <2>1, <2>2
    <3> QED
      BY <3>1
  <2> QED
    BY <1>2, <2>1, <2>2 DEF InboxSays
<1>8. ASSUME NEW c \in Buttons, ~OnItsWay(c)', Names(Head(inbox), c)
      PROVE  Says(Head(inbox), c, server[c])
  <2>1. 1 \in 1..Len(inbox) /\ Names(inbox[1], c)
    BY <1>5, <1>8
  <2>2. ASSUME NEW l \in 1..Len(inbox), l > 1 PROVE ~Names(inbox[l], c)
    <3>1. l - 1 \in 1..Len(inbox') /\ inbox'[l - 1] = inbox[l]
      BY <1>6, <2>2
    <3> QED
      BY <1>8, <3>1 DEF OnItsWay
  <2> QED
    BY <1>2, <1>5, <2>1, <2>2 DEF InboxSays
<1>9. Top'.msg = Head(inbox) /\ Top'.k = 1 /\ Top'.at = "loop"
  BY <1>3 DEF Call
<1>10. CallSays'
  BY <1>1, <1>8, <1>9 DEF CallSays
<1>11. Credited'
  <2> SUFFICES ASSUME NEW c \in Buttons, ~OnItsWay(c)'
               PROVE  uuid[c] = server[c] \/ Unset(Top', c)
    BY <1>1, <1>3 DEF Credited
  <2>1. CASE Names(Head(inbox), c)
    <3>1. PICK n \in DOMAIN Head(inbox).parts : Head(inbox).parts[n][1] = c
      BY <2>1 DEF Names
    <3>2. Head(inbox).type = "DOWNLOAD"
      BY <2>1 DEF Names
    <3>3. Head(inbox).parts \in Seq(Buttons \X Senders)
      BY <1>3, <3>2, OrderKinds
    <3>4. n > 1 \/ n = 1
      BY <3>1, <3>3, LenProperties
    <3> QED
      BY <1>9, <3>1, <3>2, <3>4 DEF Unset, Unnoted
  <2>2. CASE ~Names(Head(inbox), c)
    <3>1. ~OnItsWay(c)
      BY <1>5, <1>6, <2>2 DEF OnItsWay
    <3> QED
      BY <1>1, <1>2, <3>1 DEF Credited
  <2> QED
    BY <2>1, <2>2
<1>12. FileSays'
  BY <1>1, <1>2 DEF FileSays
<1> QED
  BY <1>3, <1>7, <1>10, <1>11, <1>12

\* The sender that is noted is the server's, unless a newer command is coming.
LEMMA CreditSets ==
  ASSUME StackInv, TypeOK, CreditInv, SetSender
  PROVE  CreditInv'
<1> SUFFICES ASSUME mishaps' = {}
             PROVE  (Len(calls) <= 1 /\ InboxSays /\ CallSays /\ Credited /\ FileSays)'
  BY DEF CreditInv
<1>1. /\ calls # <<>> /\ UNCHANGED <<pc, inbox, sent, server, mishaps>>
      /\ uuid' = [uuid EXCEPT ![Part[1]] = Part[2]] /\ Top.at = "button"
  BY DEF SetSender, At, serverVars, boundVars, historyVars
<1>2. Len(calls) <= 1 /\ InboxSays /\ CallSays /\ Credited
  BY <1>1 DEF CreditInv
<1>3. MovesTo({"download"})
  BY HandlerMoves
<1>4. /\ calls' # <<>> /\ Top'.msg = Top.msg /\ Top'.at = "download"
      /\ Len(calls') = Len(calls)
  BY <1>1, <1>3, MoveKeepsStack
<1>5. /\ Top.msg.type = "DOWNLOAD" /\ Top.k \in DOMAIN Top.msg.parts /\ pc = "listen"
  BY <1>1, TopIsFrame, FrameKinds DEF Loading
<1>6. ASSUME NEW c \in Buttons, ~OnItsWay(c), ~Unset(Top', c)
      PROVE  uuid'[c] = server[c]
  <2>1. uuid \in [Buttons -> Senders \cup {NoSender, Null}]
    BY DEF TypeOK, Ids
  <2>2. CASE c = Part[1]
    <3>1. Names(Top.msg, c)
      BY <1>5, <2>2 DEF Names, Part
    <3>2. Says(Top.msg, c, server[c])
      BY <1>1, <1>2, <1>6, <3>1 DEF CallSays
    <3>3. Part[2] = server[c]
      BY <1>5, <2>2, <3>2 DEF Says, Part
    <3> QED
      BY <1>1, <2>1, <2>2, <3>3
  <2>3. CASE c # Part[1]
    <3>1. ~Unset(Top, c)
      BY <1>1, <1>3, <1>6, <2>3, UnsetMoves
    <3> QED
      BY <1>1, <1>2, <1>5, <1>6, <2>1, <2>3, <3>1 DEF Credited
  <2> QED
    BY <2>2, <2>3
<1>7. InboxSays'
  BY <1>1, <1>2 DEF InboxSays
<1>8. CallSays'
  BY <1>1, <1>2, <1>4 DEF CallSays, OnItsWay
<1>9. Credited'
  BY <1>1, <1>4, <1>6 DEF Credited, OnItsWay
<1>10. FileSays'
  BY <1>1, <1>4, <1>5 DEF FileSays
<1> QED
  BY <1>2, <1>4, <1>7, <1>8, <1>9, <1>10

\* The server's newest recording and the newest command are of one sender.
LEMMA CreditSends ==
  ASSUME StackInv, TypeOK, CreditInv, NEW m \in Orders, SendOrder(m)
  PROVE  CreditInv'
<1> SUFFICES ASSUME mishaps' = {}
             PROVE  (Len(calls) <= 1 /\ InboxSays /\ CallSays /\ Credited /\ FileSays)'
  BY DEF CreditInv
<1>1. /\ pc = "listen" /\ inbox' = Append(inbox, m) /\ inbox \in Seq(Orders)
      /\ UNCHANGED <<pc, calls, uuid, idFile>> /\ mishaps = {}
  BY DEF SendOrder, StackInv, flashVars
<1>2. Len(calls) <= 1 /\ InboxSays /\ CallSays /\ Credited /\ FileSays
  BY <1>1 DEF CreditInv
<1>3. /\ Len(inbox) \in Nat /\ Len(inbox') = Len(inbox) + 1 /\ inbox'[Len(inbox) + 1] = m
      /\ \A j \in 1..Len(inbox) : inbox'[j] = inbox[j]
  BY <1>1, AppendProperties, LenProperties
<1>4. ASSUME NEW c \in Buttons
      PROVE  /\ OnItsWay(c) \/ Names(m, c) => OnItsWay(c)'
             /\ ~Names(m, c) => server'[c] = server[c]
  <2>1. mishaps' \subseteq {"nested"}
    OBVIOUS
  <2>2. ~Names(m, c) => server'[c] = server[c]
    BY <2>1, SendKeepsDue
  <2>3. Names(m, c) => OnItsWay(c)'
    BY <2>1, SendKeepsDue
  <2>4. OnItsWay(c) => OnItsWay(c)'
    <3>1. \A j \in 1..Len(inbox) : j \in 1..Len(inbox') /\ inbox'[j] = inbox[j]
      BY <1>3
    <3> QED
      BY <3>1 DEF OnItsWay
  <2> QED
    BY <2>2, <2>3, <2>4
<1>5. ASSUME NEW c \in Buttons, Names(m, c) PROVE Says(m, c, server'[c])
  <2>1. m.type = "DOWNLOAD"
    BY <1>5 DEF Names
  <2>2. server'[c] = Sender(m, c, server[c])
    BY <2>1 DEF SendOrder
  <2>3. ASSUME NEW n \in DOMAIN m.parts, m.parts[n][1] = c
        PROVE  m.parts[n][2] = server'[c]
    BY <2>1, <2>2, <2>3, SenderOfPart
  <2> QED
    BY <2>3 DEF Says
<1>6. InboxSays'
  <2> SUFFICES ASSUME NEW c \in Buttons, NEW j \in 1..Len(inbox'), Names(inbox'[j], c),
                      \A l \in 1..Len(inbox') : l > j => ~Names(inbox'[l], c)
               PROVE  Says(inbox'[j], c, server'[c])
    BY DEF InboxSays
  <2>1. CASE j = Len(inbox) + 1
    BY <1>3, <1>5, <2>1
  <2>2. CASE j # Len(inbox) + 1
    <3>1. j \in 1..Len(inbox) /\ inbox'[j] = inbox[j]
      BY <1>3, <2>2
    <3>2. Len(inbox) + 1 \in 1..Len(inbox') /\ Len(inbox) + 1 > j
      BY <1>3, <3>1
    <3>3. ~Names(m, c)
      BY <1>3, <3>2
    <3>4. \A l \in 1..Len(inbox) : l > j => ~Names(inbox[l], c)
      <4>1. \A l \in 1..Len(inbox) : l \in 1..Len(inbox') /\ inbox'[l] = inbox[l]
        BY <1>3
      <4> QED
        BY <4>1
    <3>5. Says(inbox[j], c, server[c])
      BY <1>2, <3>1, <3>4 DEF InboxSays
    <3> QED
      BY <1>4, <3>1, <3>3, <3>5
  <2> QED
    BY <2>1, <2>2
<1>7. CallSays'
  <2> SUFFICES ASSUME NEW c \in Buttons, ~OnItsWay(c)', calls # <<>>, Names(Top.msg, c)
               PROVE  Says(Top.msg, c, server'[c])
    BY <1>1 DEF CallSays, Top
  <2>1. ~OnItsWay(c) /\ server'[c] = server[c]
    BY <1>4
  <2> QED
    BY <1>2, <2>1 DEF CallSays
<1>8. Credited'
  <2> SUFFICES ASSUME NEW c \in Buttons, ~OnItsWay(c)'
               PROVE  uuid[c] = server'[c] \/ (calls # <<>> /\ Unset(Top, c))
    BY <1>1 DEF Credited, Top
  <2>1. ~OnItsWay(c) /\ server'[c] = server[c]
    BY <1>4
  <2> QED
    BY <1>1, <1>2, <2>1 DEF Credited
<1>9. FileSays'
  BY <1>1, <1>2 DEF FileSays, Top
<1> QED
  BY <1>1, <1>2, <1>6, <1>7, <1>8, <1>9

\* A restart that cuts nothing off finds the senders on file.
LEMMA CreditReboots ==
  ASSUME StackInv, TypeOK, CreditInv, Reboot, UNCHANGED <<server, idFile>>
  PROVE  CreditInv'
<1> SUFFICES ASSUME mishaps' = {}
             PROVE  (Len(calls) <= 1 /\ InboxSays /\ CallSays /\ Credited /\ FileSays)'
  BY DEF CreditInv
<1>1. /\ pc' = "read" /\ calls' = <<>> /\ inbox' = <<>> /\ uuid' = All(NoSender)
      /\ LoseInbox /\ mishaps' \subseteq {"nested"}
  BY DEF Reboot, LoseInbox
<1>2. pc # "first" /\ mishaps = {}
  BY <1>1, QuietReboot
<1>3. Credited /\ FileSays /\ \A c \in Buttons : ~OnItsWay(c)
  BY <1>1, <1>2, QuietReboot DEF CreditInv
<1>4. calls = <<>> \/ Top.at = "restart"
  BY <1>1 DEF LoseInbox, CutsOff, At
<1>5. ASSUME NEW c, calls # <<>> PROVE ~Unset(Top, c)
  <2>1. Top.msg.type = "OTA"
    BY <1>4, <1>5, TopIsFrame, FrameKinds DEF Updating
  <2> QED
    BY <1>5, <2>1, UnsetEnds
<1>6. pc = "listen" => \A c \in Buttons : idFile[c] = server[c]
  <2> SUFFICES ASSUME pc = "listen", NEW c \in Buttons PROVE idFile[c] = server[c]
    OBVIOUS
  <2>1. idFile = uuid
    BY <1>3, <1>4 DEF FileSays
  <2>2. uuid[c] = server[c]
    BY <1>3, <1>5 DEF Credited
  <2> QED
    BY <2>1, <2>2
<1>7. pc = "read" \/ pc = "listen"
  BY <1>2 DEF TypeOK
<1>8. FileSays'
  BY <1>1, <1>3, <1>6, <1>7 DEF FileSays, All
<1>9. Len(calls') = 0 /\ Len(inbox') = 0
  BY <1>1, EmptySeq
<1> QED
  BY <1>1, <1>8, <1>9 DEF InboxSays, CallSays, Credited

LEMMA CreditReads ==
  ASSUME StackInv, TypeOK, CreditInv, ReadSenderIDs \/ WriteFirstIDs
  PROVE  CreditInv'
<1> SUFFICES ASSUME mishaps' = {}
             PROVE  (Len(calls) <= 1 /\ InboxSays /\ CallSays /\ Credited /\ FileSays)'
  BY DEF CreditInv
<1>1. /\ UNCHANGED <<calls, inbox, server>> /\ mishaps = {} /\ pc \in {"read", "first"}
      /\ calls = <<>>
  BY DEF ReadSenderIDs, WriteFirstIDs, serverVars, historyVars, StackInv
<1>2. Len(calls) <= 1 /\ InboxSays /\ FileSays
  BY <1>1 DEF CreditInv
<1>3. InboxSays' /\ CallSays'
  BY <1>1, <1>2 DEF InboxSays, CallSays
<1>4. ASSUME NEW c \in Buttons
      PROVE  server[c] # NoFile /\ NoSender # NoFile /\ All(NoFile)[c] = NoFile
             /\ All(NoSender)[c] = NoSender
  BY CommandsAssumption DEF TypeOK, All, NoSender, NoFile
<1>5. CASE ReadSenderIDs
  <2>1. CASE idFile = All(NoFile)
    <3>1. pc' = "first" /\ uuid' = uuid /\ uuid = All(NoSender) /\ pc = "read"
      BY <1>2, <1>5, <2>1 DEF ReadSenderIDs, FileSays
    <3>2. \A c \in Buttons : server[c] = NoSender
      BY <1>2, <1>4, <2>1, <3>1 DEF FileSays
    <3>3. \A c \in Buttons : uuid'[c] = server'[c]
      BY <1>1, <1>4, <3>1, <3>2
    <3> QED
      BY <1>1, <1>2, <1>3, <3>1, <3>3 DEF Credited, FileSays
  <2>2. CASE idFile # All(NoFile)
    <3>1. pc' = "listen" /\ uuid' = idFile /\ idFile' = idFile /\ pc = "read"
      BY <1>5, <2>2 DEF ReadSenderIDs
    <3>2. \A c \in Buttons : uuid'[c] = server'[c]
      BY <1>1, <1>2, <2>2, <3>1 DEF FileSays
    <3> QED
      BY <1>1, <1>2, <1>3, <3>1, <3>2 DEF Credited, FileSays
  <2> QED
    BY <2>1, <2>2
<1>6. CASE WriteFirstIDs
  <2>1. pc = "first" /\ pc' = "listen" /\ idFile' = uuid /\ uuid' = uuid
    BY <1>6 DEF WriteFirstIDs
  <2>2. \A c \in Buttons : uuid'[c] = server'[c]
    BY <1>1, <1>2, <2>1 DEF FileSays
  <2> QED
    BY <1>1, <1>2, <1>3, <2>1, <2>2 DEF Credited, FileSays
<1> QED
  BY <1>5, <1>6

LEMMA CreditNext == TypeOK /\ StackInv /\ CreditInv /\ [Next]_vars => CreditInv'
<1> SUFFICES ASSUME TypeOK, StackInv, CreditInv, [Next]_vars PROVE CreditInv'
  OBVIOUS
<1> USE DEF flashVars, serverVars, historyVars, boundVars
<1>0. ASSUME calls # <<>>, mishaps = {}
      PROVE  pc = "listen"
             /\ (idFile = uuid \/ Top.at \in {"download", "body", "ids", "write"})
  BY <1>0, TopIsFrame DEF CreditInv, FileSays
<1>1. CASE ReadSenderIDs \/ WriteFirstIDs
  BY <1>1, CreditReads
<1>2. CASE Receive
  BY <1>2, CreditReceives
<1>3. CASE SetSender
  BY <1>3, CreditSets
<1>4. CASE Dispatch
  <2>1. UNCHANGED <<pc, inbox, sent, server, uuid, idFile, mishaps>> /\ calls # <<>>
        /\ Top.at = "loop" /\ pc = "listen"
    BY <1>4, TopIsFrame DEF Dispatch, At
  <2>2. \/ Goto("ready") /\ Top.msg.type = "DOWNLOAD"
        \/ Return /\ Top.msg.type = "OTA"
        \/ Goto("ota") /\ Top.msg.type = "OTA"
    BY <1>4, <2>1, TopIsFrame, OrderKinds DEF Dispatch
  <2>3. mishaps' = {} => idFile' = uuid
    BY <1>0, <2>1
  <2>4. ASSUME Goto("ready"), Top.msg.type = "DOWNLOAD" PROVE CreditInv'
    <3>1. MovesTo({"ready"})
      BY <2>1, <2>4, GotoMoves DEF Loading
    <3>2. /\ \A c \in Buttons : Unset(Top, c) => Unset(Top', c)
          /\ calls' # <<>> /\ Top'.msg = Top.msg /\ Len(calls') = Len(calls)
      BY <2>1, <3>1, UnsetMoves, MoveKeepsStack DEF Unnoted
    <3> QED
      BY <2>1, <2>3, <3>2, CreditMoves
  <2>5. ASSUME Goto("ota"), Top.msg.type = "OTA" PROVE CreditInv'
    <3>1. MovesTo({"ota"})
      BY <2>1, <2>5, GotoMoves DEF Updating
    <3>2. /\ \A c \in Buttons : Unset(Top, c) => Unset(Top', c)
          /\ calls' # <<>> /\ Top'.msg = Top.msg /\ Len(calls') = Len(calls)
      BY <2>1, <2>5, <3>1, UnsetMoves, MoveKeepsStack
    <3> QED
      BY <2>1, <2>3, <3>2, CreditMoves
  <2> QED
    BY <2>1, <2>2, <2>4, <2>5, CreditReturns
<1>5. CASE Ready \/ OpenRecording \/ BodyComplete \/ OpenIDs \/ OtaFails \/ OtaInstalls
           \/ OpenVersion \/ WriteVersion
  <2>1. UNCHANGED <<pc, inbox, sent, server, uuid, mishaps>> /\ calls # <<>>
        /\ pc = "listen" /\ Top.at # "button" /\ Top.at # "loop"
        /\ (Top.at = "ready" => Ready)
    BY <1>5, TopIsFrame DEF Ready, OpenRecording, BodyComplete, OpenIDs, OtaFails,
                OtaInstalls, OpenVersion, WriteVersion, At
  <2>2. PICK L : MovesTo(L) /\ (Ready => L = {"button"})
                 /\ (idFile' = idFile \/ L = {"write"})
                 /\ (Top.at \in {"download", "body", "ids", "write"}
                       => L \subseteq {"download", "body", "ids", "write"})
    <3>1. Ready => MovesTo({"button"}) /\ idFile' = idFile /\ Top.at = "ready"
      BY HandlerMoves DEF Ready, At
    <3>2. ~Ready => \E L : MovesTo(L) /\ (idFile' = idFile \/ L = {"write"})
                 /\ (Top.at \in {"download", "body", "ids", "write"}
                       => L \subseteq {"download", "body", "ids", "write"})
      BY <1>5, HandlerMoves DEF OpenRecording, BodyComplete, OpenIDs, OtaFails,
                OtaInstalls, OpenVersion, WriteVersion, At
    <3>3. CASE Ready
      BY <3>1, <3>3
    <3>4. CASE ~Ready
      BY <3>2, <3>4
    <3> QED
      BY <3>3, <3>4
  <2>3. Top.at \in Unnoted => L \subseteq Unnoted
    BY <2>1, <2>2 DEF Unnoted
  <2>4. /\ \A c \in Buttons : Unset(Top, c) => Unset(Top', c)
        /\ calls' # <<>> /\ Top'.msg = Top.msg /\ Len(calls') = Len(calls)
        /\ Top'.at \in L
    BY <2>1, <2>2, <2>3, UnsetMoves, MoveKeepsStack
  <2>5. mishaps' = {} => idFile' = uuid \/ Top'.at \in {"download", "body", "ids", "write"}
    BY <1>0, <2>1, <2>2, <2>4
  <2> QED
    BY <2>1, <2>4, <2>5, CreditMoves
<1>6. ASSUME NEW check \in BOOLEAN, NotSent(check) \/ BodyFails(check) PROVE CreditInv'
  <2>1. UNCHANGED <<pc, inbox, sent, server, uuid, idFile, mishaps>> /\ calls # <<>>
        /\ (At("download") \/ At("body")) /\ AfterDownload(check)
        /\ Top.at \notin Unnoted /\ pc = "listen"
    BY <1>6, TopIsFrame DEF NotSent, BodyFails, At, Unnoted
  <2>2. MovesTo({"download", "ids"})
    BY <2>1, DownloadMoves
  <2>3. /\ \A c \in Buttons : Unset(Top, c) => Unset(Top', c)
        /\ calls' # <<>> /\ Top'.msg = Top.msg /\ Len(calls') = Len(calls)
        /\ Top'.at \in {"download", "ids"}
    BY <2>1, <2>2, UnsetMoves, MoveKeepsStack
  <2> QED
    BY <2>1, <2>3, CreditMoves
<1>7. CASE WriteIDs
  <2>1. UNCHANGED <<pc, inbox, sent, server, uuid, mishaps>> /\ calls # <<>>
        /\ idFile' = uuid /\ pc = "listen"
    BY <1>7, TopIsFrame DEF WriteIDs, At
  <2>2. /\ \A c \in Buttons : Unset(Top, c) => Unset(Top', c)
        /\ calls' # <<>> /\ Top'.msg = Top.msg /\ Len(calls') = Len(calls)
    BY <1>7, UnsetWrite
  <2> QED
    BY <2>1, <2>2, CreditMoves
<1>8. CASE SendStatus
  <2>1. UNCHANGED <<pc, inbox, sent, server, uuid, idFile, mishaps>> /\ calls # <<>>
        /\ Return /\ Top.at = "status"
    BY <1>8 DEF SendStatus, At
  <2> QED
    BY <2>1, CreditReturns
<1>9. CASE EspRestart \/ PowerLoss
  BY <1>9, CreditReboots DEF EspRestart, PowerLoss
<1>10. CASE SessionDrop
  BY <1>10 DEF SessionDrop, CreditInv
<1>11. ASSUME NEW m \in Orders, SendOrder(m) PROVE CreditInv'
  BY <1>11, CreditSends
<1>12. CASE UNCHANGED vars
  BY <1>12 DEF vars, CreditInv, InboxSays, CallSays, Credited, FileSays, OnItsWay, Top
<1> QED
  BY <1>1, <1>2, <1>3, <1>4, <1>5, <1>6, <1>7, <1>8, <1>9, <1>10, <1>11, <1>12
     DEF Next, FireBaseTask, Download, Ota

\* Whatever was sent, and however often the toy was restarted between two
\* commands, a button plays the person it is credited to.
THEOREM CreditsAreRight == Spec => []RightCredit
<1>1. Init => PendInv /\ CreditInv
  <2> SUFFICES ASSUME Init PROVE PendInv /\ CreditInv
    OBVIOUS
  <2>1. PendInv
    BY DEF Init, PendInv, All
  <2>2. Len(calls) = 0 /\ Len(inbox) = 0
    BY DEF Init
  <2> QED
    BY <2>1, <2>2 DEF Init, CreditInv, InboxSays, CallSays, Credited, FileSays, All
<1>2. StackInv /\ PendInv /\ CreditInv => RightCredit
  <2> SUFFICES ASSUME PendInv, CreditInv, AtRest, mishaps = {}, NEW c \in Buttons \ failed
               PROVE  uuid[c] = recording[c]
    BY DEF RightCredit
  <2>1. Len(calls) = 0 /\ Len(inbox) = 0 /\ calls = <<>> /\ pc = "listen"
    BY DEF AtRest
  <2>2. ~OnItsWay(c) /\ ~SomeDue(c)
    BY <2>1 DEF OnItsWay, SomeDue
  <2>3. recording[c] = server[c]
    BY <2>2 DEF PendInv
  <2>4. uuid[c] = server[c]
    BY <2>1, <2>2 DEF CreditInv, Credited
  <2> QED
    BY <2>3, <2>4
<1>3. StackInv /\ MemoryOK => TypeOK
  BY StackIsTyped
<1> QED
  BY <1>1, <1>2, <1>3, CallsAreCorrect, PendNext, CreditNext, PTL DEF Spec

-----------------------------------------------------------------------------
(* Handlers come to an end *)

LEMMA BecomesOnwards ==
  ASSUME StackInv, calls # <<>>, NEW g \in Frames, Becomes(g), inbox' = inbox,
         Later(Top, g)
  PROVE  Onwards
<1>1. calls \in Seq(Frames) /\ Len(calls) \in Nat \ {0}
  BY TopIsFrame DEF StackInv
<1>2. /\ calls' \in Seq(Frames) /\ Len(calls') = Len(calls) /\ calls'[Len(calls)] = g
      /\ \A j \in 1..Len(calls)-1 : calls'[j] = calls[j]
  BY <1>1, ReplaceTop DEF Becomes
<1>3. calls' # <<>>
  BY <1>1, <1>2, EmptySeq
<1>4. Top' = g
  BY <1>2, <1>3, LastOfStack DEF Top
<1> QED
  BY <1>2, <1>4 DEF Onwards

LEMMA GotoOnwards ==
  ASSUME StackInv, calls # <<>>, NEW l \in Labels, Goto(l), inbox' = inbox,
         Place[l] > Place[Top.at]
  PROVE  Onwards
<1> DEFINE g == [Top EXCEPT !.at = l]
<1>1. Top \in Frames
  BY TopIsFrame
<1>2. g \in Frames /\ g.msg = Top.msg /\ g.k = Top.k /\ g.try = Top.try /\ g.at = l
  BY <1>1 DEF Frames
<1>3. Becomes(g)
  BY DEF Goto
<1> HIDE DEF g
<1>4. Later(Top, g)
  BY <1>2 DEF Later
<1> QED
  BY <1>2, <1>3, <1>4, BecomesOnwards

LEMMA ReturnOnwards ==
  ASSUME StackInv, calls # <<>>, Return, inbox' = inbox
  PROVE  Onwards
<1>1. calls \in Seq(Frames) /\ Len(calls) \in Nat \ {0}
  BY TopIsFrame DEF StackInv
<1>2. Len(calls') = Len(calls) - 1
  BY <1>1, PopStack DEF Return
<1> QED
  BY <1>1, <1>2 DEF Onwards

\* A second try is a step on, and there is no third.
LEMMA DownloadOnwards ==
  ASSUME StackInv, At("download") \/ At("body"), inbox' = inbox,
         NEW check \in BOOLEAN, AfterDownload(check)
  PROVE  Onwards
<1>1. Top \in Frames /\ calls # <<>> /\ Top.at \in {"download", "body"}
      /\ Top.msg.type = "DOWNLOAD" /\ Part[1] \in Buttons
  BY TopIsFrame, FrameKinds DEF At, Loading, Part
<1>2. ASSUME NEW a \in {"download", "ids"}, NEW t \in 1..2, NEW F \in SUBSET Buttons,
             Becomes([Top EXCEPT !.at = a, !.try = t, !.failed = F]),
             t > Top.try \/ (t = Top.try /\ a = "ids")
      PROVE  Onwards
  <2> DEFINE g == [Top EXCEPT !.at = a, !.try = t, !.failed = F]
  <2>1. /\ g \in Frames /\ g.msg = Top.msg /\ g.k = Top.k /\ g.try = t /\ g.at = a
    BY <1>1 DEF Frames, Labels
  <2>2. Becomes(g)
    BY <1>2
  <2> HIDE DEF g
  <2>3. Place["ids"] > Place[Top.at]
    BY <1>1 DEF Place
  <2>4. Later(Top, g)
    BY <1>2, <2>1, <2>3 DEF Later
  <2> QED
    BY <1>1, <2>1, <2>2, <2>4, BecomesOnwards
<1>3. CASE check
  <2>1. Becomes([Top EXCEPT !.at = "ids", !.failed = Top.failed \ {Part[1]}])
    BY <1>3 DEF AfterDownload
  <2>2. [Top EXCEPT !.at = "ids", !.failed = Top.failed \ {Part[1]}]
        = [Top EXCEPT !.at = "ids", !.try = Top.try, !.failed = Top.failed \ {Part[1]}]
    BY <1>1 DEF Frames
  <2>3. Top.try \in 1..2 /\ Top.failed \ {Part[1]} \in SUBSET Buttons
    BY <1>1 DEF Frames
  <2> QED
    BY <1>2, <2>1, <2>2, <2>3
<1>4. CASE ~check /\ Top.try = 1
  <2>1. Becomes([Top EXCEPT !.at = "download", !.try = 2])
    BY <1>4 DEF AfterDownload
  <2>2. [Top EXCEPT !.at = "download", !.try = 2]
        = [Top EXCEPT !.at = "download", !.try = 2, !.failed = Top.failed]
    BY <1>1 DEF Frames
  <2>3. 2 \in 1..2 /\ 2 > Top.try /\ Top.failed \in SUBSET Buttons
    BY <1>1, <1>4 DEF Frames
  <2> QED
    BY <1>2, <2>1, <2>2, <2>3
<1>5. CASE ~check /\ Top.try # 1
  <2>1. Becomes([Top EXCEPT !.at = "ids", !.failed = Top.failed \cup {Part[1]}])
    BY <1>5 DEF AfterDownload
  <2>2. [Top EXCEPT !.at = "ids", !.failed = Top.failed \cup {Part[1]}]
        = [Top EXCEPT !.at = "ids", !.try = Top.try, !.failed = Top.failed \cup {Part[1]}]
    BY <1>1 DEF Frames
  <2>3. Top.try \in 1..2 /\ Top.failed \cup {Part[1]} \in SUBSET Buttons
    BY <1>1 DEF Frames
  <2> QED
    BY <1>2, <2>1, <2>2, <2>3
<1> QED
  BY <1>3, <1>4, <1>5

LEMMA WriteOnwards ==
  ASSUME StackInv, WriteIDs
  PROVE  Onwards
<1>1. Top \in Frames /\ calls # <<>> /\ Top.at = "write" /\ inbox' = inbox
  BY TopIsFrame DEF WriteIDs, At, serverVars
<1>2. CASE Top.k < Len(Top.msg.parts)
  <2> DEFINE g == [Top EXCEPT !.at = "button", !.k = @ + 1, !.try = 1]
  <2>0. Top.k \in Nat /\ Top.k + 1 \in Nat /\ 1 \in 1..2 /\ "button" \in Labels
    BY <1>1 DEF Frames, Labels
  <2>1. g \in Frames /\ g.msg = Top.msg /\ g.k = Top.k + 1
    BY <1>1, <2>0 DEF Frames
  <2>2. Becomes(g)
    BY <1>2 DEF WriteIDs
  <2> HIDE DEF g
  <2>3. Later(Top, g)
    BY <2>0, <2>1 DEF Later
  <2> QED
    BY <1>1, <2>1, <2>2, <2>3, BecomesOnwards
<1>3. CASE ~(Top.k < Len(Top.msg.parts))
  BY <1>1, <1>3, GotoOnwards DEF WriteIDs, Labels, Place
<1> QED
  BY <1>2, <1>3

LEMMA RestartOnwards ==
  ASSUME StackInv, calls # <<>>, Reboot
  PROVE  Onwards
<1>1. calls \in Seq(Frames) /\ Len(calls) \in Nat \ {0} /\ inbox \in Seq(Orders)
  BY TopIsFrame DEF StackInv
<1>2. calls' = <<>> /\ inbox' = <<>>
  BY DEF Reboot, LoseInbox
<1>3. Len(calls') = 0 /\ Len(inbox') = 0
  BY <1>2
<1>4. inbox = <<>> \/ Len(inbox) > 0
  BY <1>1, EmptySeq, LenProperties
<1> QED
  BY <1>1, <1>2, <1>3, <1>4 DEF Onwards

LEMMA TaskOnwards == StackInv /\ FireBaseTask => Onwards
<1> SUFFICES ASSUME StackInv, FireBaseTask PROVE Onwards
  OBVIOUS
<1> USE DEF flashVars, serverVars, historyVars, boundVars
<1>1. CASE ReadSenderIDs \/ WriteFirstIDs
  BY <1>1 DEF ReadSenderIDs, WriteFirstIDs, Onwards
<1>2. CASE Receive
  <2>1. inbox \in Seq(Orders) /\ inbox # <<>> /\ inbox' = Tail(inbox)
    BY <1>2 DEF Receive, StackInv
  <2>2. Len(inbox) \in Nat /\ Len(Tail(inbox)) = Len(inbox) - 1
    BY <2>1, HeadTailProperties, LenProperties
  <2>3. Len(inbox') < Len(inbox)
    BY <2>1, <2>2
  <2> QED
    BY <2>3 DEF Onwards
<1>3. CASE Dispatch
  <2>1. calls # <<>> /\ Top.at = "loop" /\ inbox' = inbox
    BY <1>3 DEF Dispatch, At
  <2>2. Goto("ready") \/ Return \/ Goto("ota")
    BY <1>3 DEF Dispatch
  <2> QED
    BY <2>1, <2>2, GotoOnwards, ReturnOnwards DEF Labels, Place
<1>4. CASE Ready
  BY <1>4, GotoOnwards DEF Ready, At, Labels, Place
<1>5. CASE SetSender
  BY <1>5, GotoOnwards DEF SetSender, At, Labels, Place
<1>6. CASE OpenRecording
  BY <1>6, GotoOnwards DEF OpenRecording, At, Labels, Place
<1>7. CASE BodyComplete
  BY <1>7, DownloadOnwards DEF BodyComplete
<1>8. CASE OpenIDs
  BY <1>8, GotoOnwards DEF OpenIDs, At, Labels, Place
<1>9. CASE WriteIDs
  BY <1>9, WriteOnwards
<1>10. CASE SendStatus
  BY <1>10, ReturnOnwards DEF SendStatus, At
<1>11. ASSUME NEW check \in BOOLEAN, NotSent(check) \/ BodyFails(check) PROVE Onwards
  BY <1>11, DownloadOnwards DEF NotSent, BodyFails
<1>12. CASE OtaFails
  BY <1>12, GotoOnwards DEF OtaFails, At, Labels, Place
<1>13. CASE OtaInstalls
  BY <1>13, GotoOnwards DEF OtaInstalls, At, Labels, Place
<1>14. CASE OpenVersion
  BY <1>14, GotoOnwards DEF OpenVersion, At, Labels, Place
<1>15. CASE WriteVersion
  BY <1>15, GotoOnwards DEF WriteVersion, At, Labels, Place
<1>16. CASE EspRestart
  BY <1>16, RestartOnwards DEF EspRestart, At
<1> QED
  BY <1>1, <1>2, <1>3, <1>4, <1>5, <1>6, <1>7, <1>8, <1>9, <1>10, <1>11, <1>12,
     <1>13, <1>14, <1>15, <1>16
     DEF FireBaseTask, Download, Ota

\* For any commands, nested however deep, and whatever fails, FireBaseTask takes
\* no step back.  As TypeOK bounds the buttons, tries and places of a handler,
\* this is what HandlesAll needs beside fairness.
THEOREM HandlersComeOnwards == Spec => OnlyOnwards
<1>1. StackInv /\ [Next]_vars => [FireBaseTask => Onwards]_vars
  BY TaskOnwards
<1> QED
  BY <1>1, CallsAreCorrect, PTL DEF Spec, OnlyOnwards
=============================================================================
