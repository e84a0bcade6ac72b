----------------------- MODULE MeasurementServerProofs -----------------------
(***************************************************************************)
(* Proofs about MeasurementServer for every set of clients, every number   *)
(* of datasets and transmissions, and the three protocols: what a client   *)
(* may conclude from what it has read, and who fails when.                 *)
(***************************************************************************)
EXTENDS MeasurementServer, SequenceTheorems, FiniteSetTheorems, TLAPS

Pieces == Ids \union Nat \union {End}
AnswerPieces == AllResults \union {End}
N == Cardinality(Ids)

(* The whole answer to the request of a session.                           *)
Answer(s) ==
  LET results == [i \in DOMAIN request[s] |-> Result(s, request[s][i])]
  IN  IF protocol = "PROTO" THEN results ELSE Append(results, End)

Asked(s) == request[s] \in SetToSeqs(Ids)

(* p is how far the writing of q has come.                                 *)
PartOf(p, q) == Len(p) <= Len(q) /\ \A i \in 1 .. Len(p) : p[i] = q[i]
------------------------------------------------------------------------------
(* A session is fresh until its client connects; from then on both sides   *)
(* write a part of what they have to, and the server closes the connection *)
(* when it has written all or the client has given up.                     *)
Abandoned(s) ==
  /\ s = Session(s[1]) /\ pc[s[1]] \in {"failed", "stopped"}
  /\ in[s] # Message(s)

SessionOK(s) ==
  /\ connection[s] = "none" => request[s] = << >> /\ in[s] = << >> /\ out[s] = << >>
  /\ connection[s] # "none" => /\ Asked(s)
                               /\ PartOf(in[s], Message(s))
                               /\ PartOf(out[s], Answer(s))
  /\ connection[s] = "closed" => out[s] = Answer(s) \/ Abandoned(s)
  /\ connection[s] = "cut" => ServerGone

SessionsOK ==
  /\ in \in [Sessions -> Seq(Pieces)]
  /\ out \in [Sessions -> Seq(AnswerPieces)]
  /\ connection \in [Sessions -> {"none", "open", "closed", "cut"}]
  /\ request \in [Sessions -> SetToSeqs(Ids) \union {<< >>}]
  /\ \A s \in Sessions : SessionOK(s)

(* A client has read the whole answer of each transmission behind it.      *)
Done(c, k) == k < round[c] \/ (k = round[c] /\ pc[c] = "correct")

ClientOK(c) ==
  /\ \A k \in 1 .. Transmissions : k > round[c] => connection[<<c, k>>] = "none"
  /\ pc[c] = "connecting" => connection[Session(c)] = "none"
  /\ pc[c] \in {"writing", "waiting", "stopped"} => connection[Session(c)] # "none"
  /\ pc[c] = "writing" => in[Session(c)] # Message(Session(c))
  /\ pc[c] = "waiting" => in[Session(c)] = Message(Session(c))
  /\ pc[c] = "failed" => ServerGone
  /\ pc[c] = "correct" => round[c] = Transmissions
  /\ \A k \in 1 .. Transmissions :
       Done(c, k) => /\ connection[<<c, k>>] # "none"
                     /\ in[<<c, k>>] = Message(<<c, k>>)
                     /\ out[<<c, k>>] = Answer(<<c, k>>)

ClientsOK ==
  /\ pc \in [Clients -> {"connecting", "writing", "waiting", "correct", "failed", "stopped"}]
  /\ round \in [Clients -> 1 .. Transmissions]
  /\ \A c \in Clients : ClientOK(c)

(* The open connections are those of the backlog, each there once, and the *)
(* one being served.                                                       *)
BacklogOK ==
  /\ backlog \in Seq(Sessions)
  /\ \A i, j \in 1 .. Len(backlog) : backlog[i] = backlog[j] => i = j
  /\ \A s \in Sessions : connection[s] = "open" <=> s = serving \/ Contains(backlog, s)
  /\ \A s \in Sessions : Contains(backlog, s) => s # serving /\ out[s] = << >>

(* What the server has yet to write is the rest of the answer.             *)
RestOf(s) ==
  /\ Len(out[s]) + Len(response) = Len(Answer(s))
  /\ \A i \in 1 .. Len(response) : response[i] = Answer(s)[Len(out[s]) + i]

ServerOK ==
  /\ protocol \in Protocols
  /\ server \in {"waiting", "reading", "answering", "ended", "killed"}
  /\ response \in Seq(AnswerPieces)
  /\ server \in {"reading", "answering"} => serving \in Sessions
  /\ server \notin {"reading", "answering"} => serving = NoSession
  /\ server # "answering" => response = << >>
  /\ server = "reading" => out[serving] = << >>
  /\ server = "answering" => RestOf(serving) \/ (response = << >> /\ Abandoned(serving))
  /\ ServerGone => backlog = << >>
  /\ server = "ended" =>
       /\ protocol # "JSON"
       /\ \E c \in Clients : pc[c] = "stopped" /\ in[Session(c)] # Message(Session(c))

IInv == SessionsOK /\ ClientsOK /\ BacklogOK /\ ServerOK
------------------------------------------------------------------------------
LEMMA NFacts == N \in Nat /\ N >= 1
<1>1. IsFiniteSet(Ids) /\ Ids # {}
  BY MeasurementAssumption
<1>2. Cardinality(Ids) \in Nat /\ Cardinality(Ids) # 0
  BY <1>1, FS_CardinalityType, FS_EmptySet
<1> QED
  BY <1>2 DEF N

LEMMA AskedFacts ==
  ASSUME NEW s, Asked(s)
  PROVE  /\ request[s] \in Seq(Ids) /\ Len(request[s]) = N
         /\ DOMAIN request[s] = 1 .. N
         /\ \A i \in 1 .. N : request[s][i] \in Ids
         /\ \A i, j \in 1 .. N : request[s][i] = request[s][j] => i = j
<1>1. /\ request[s] \in [1 .. N -> Ids]
      /\ \A i, j \in 1 .. N : i # j => request[s][i] # request[s][j]
  BY DEF Asked, SetToSeqs, N
<1>2. request[s] \in Seq(Ids)
  BY <1>1, NFacts, SeqDef
<1>3. Len(request[s]) = N
  BY <1>1, <1>2, NFacts, LenProperties
<1> QED
  BY <1>1, <1>2, <1>3

LEMMA MessageFacts ==
  ASSUME NEW s, Asked(s)
  PROVE  /\ Message(s) \in Seq(Pieces) /\ Len(Message(s)) = N + 1
         /\ protocol = "JSON" =>
              /\ \A i \in 1 .. N : Message(s)[i] = request[s][i]
              /\ Message(s)[N + 1] = End
         /\ protocol # "JSON" =>
              /\ Message(s)[1] = N
              /\ \A i \in 1 .. N : Message(s)[i + 1] = request[s][i]
<1>1. request[s] \in Seq(Pieces) /\ Len(request[s]) = N /\ N \in Nat /\ N >= 1
  <2>1. request[s] \in Seq(Ids) /\ Len(request[s]) = N
    BY AskedFacts
  <2> QED
    BY <2>1, NFacts DEF Pieces
<1>2. CASE protocol = "JSON"
  <2>1. Message(s) = Append(request[s], End) /\ End \in Pieces
    BY <1>2 DEF Message, Pieces
  <2> QED
    BY <1>1, <1>2, <2>1
<1>3. CASE protocol # "JSON"
  <2>1. Message(s) = <<N>> \o request[s] /\ <<N>> \in Seq(Pieces) /\ Len(<<N>>) = 1
    BY <1>1, <1>3 DEF Message, Pieces
  <2>2. Message(s) \in Seq(Pieces) /\ Len(Message(s)) = N + 1
    BY <1>1, <2>1, ConcatProperties
  <2>3. \A i \in 1 .. N + 1 : Message(s)[i] = IF i <= 1 THEN <<N>>[i] ELSE request[s][i - 1]
    BY <1>1, <2>1, ConcatProperties
  <2>4. Message(s)[1] = N
    BY <1>1, <2>3
  <2>5. \A i \in 1 .. N : Message(s)[i + 1] = request[s][i]
    <3> SUFFICES ASSUME NEW i \in 1 .. N PROVE Message(s)[i + 1] = request[s][i]
      OBVIOUS
    <3>1. i + 1 \in 1 .. N + 1 /\ ~(i + 1 <= 1) /\ (i + 1) - 1 = i
      BY <1>1
    <3> QED
      BY <2>3, <3>1
  <2> QED
    BY <1>3, <2>2, <2>4, <2>5
<1> QED
  BY <1>2, <1>3

LEMMA ResultFacts ==
  ASSUME NEW s \in Sessions, NEW id \in Ids
  PROVE  /\ Result(s, id) \in AllResults
         /\ Result(s, id).id = id /\ Result(s, id).info = <<s, id>>
         /\ \A t \in DataTypes : Result(s, id).averages[t] = <<id, t>>
<1>1. Averages(id) \in [DataTypes -> Ids \X DataTypes]
  BY DEF Averages, DataTypes
<1>2. \A t \in DataTypes : Averages(id)[t] = <<id, t>>
  BY DEF Averages, DataTypes
<1> QED
  BY <1>1, <1>2 DEF Result, AllResults

LEMMA AnswerFacts ==
  ASSUME NEW s \in Sessions, Asked(s)
  PROVE  /\ Answer(s) \in Seq(AnswerPieces)
         /\ Len(Answer(s)) = IF protocol = "PROTO" THEN N ELSE N + 1
         /\ \A i \in 1 .. N : Answer(s)[i] = Result(s, request[s][i])
         /\ \A i \in 1 .. N : Answer(s)[i] # End
         /\ protocol # "PROTO" => Answer(s)[N + 1] = End
<1> DEFINE results == [i \in 1 .. N |-> Result(s, request[s][i])]
<1>1. /\ DOMAIN request[s] = 1 .. N /\ \A i \in 1 .. N : request[s][i] \in Ids
      /\ N \in Nat
  BY AskedFacts, NFacts
<1>2. \A i \in 1 .. N : Result(s, request[s][i]) \in AllResults
  BY <1>1, ResultFacts
<1>3. results \in [1 .. N -> AllResults]
  BY <1>2
<1>4. results \in Seq(AnswerPieces) /\ Len(results) = N
  <2>1. results \in Seq(AllResults)
    BY <1>1, <1>3, SeqDef
  <2>2. Len(results) = N
    BY <1>1, <1>3, <2>1, LenProperties
  <2>3. results \in Seq(AnswerPieces)
    BY <1>1, <1>3, SeqDef DEF AnswerPieces
  <2> QED
    BY <2>2, <2>3
<1>5. \A i \in 1 .. N : results[i] = Result(s, request[s][i]) /\ results[i] # End
  BY <1>2, MeasurementAssumption
<1>6. Answer(s) = IF protocol = "PROTO" THEN results ELSE Append(results, End)
  BY <1>1 DEF Answer
<1>7. End \in AnswerPieces
  BY DEF AnswerPieces
<1> HIDE DEF results
<1>8. CASE protocol = "PROTO"
  BY <1>4, <1>5, <1>6, <1>8
<1>9. CASE protocol # "PROTO"
  <2>1. Answer(s) = Append(results, End)
    BY <1>6, <1>9
  <2>2. /\ Answer(s) \in Seq(AnswerPieces) /\ Len(Answer(s)) = N + 1
        /\ \A i \in 1 .. N : Answer(s)[i] = results[i]
        /\ Answer(s)[N + 1] = End
    BY <1>1, <1>4, <1>7, <2>1
  <2> QED
    BY <1>5, <1>9, <2>2
<1> QED
  BY <1>8, <1>9

LEMMA WholePart ==
  ASSUME NEW A, NEW p \in Seq(A), NEW q \in Seq(A), PartOf(p, q)
  PROVE  (p = q) = (Len(p) = Len(q))
<1>1. ASSUME Len(p) = Len(q) PROVE p = q
  BY <1>1, SeqEqual DEF PartOf
<1> QED
  BY <1>1
------------------------------------------------------------------------------
(* The server goes on exactly when the client has written all of it, ...   *)
LEMMA RequestReadMeans ==
  ASSUME NEW s, Asked(s), in[s] \in Seq(Pieces), PartOf(in[s], Message(s))
  PROVE  RequestRead(s) <=> in[s] = Message(s)
<1>1. /\ Len(in[s]) \in Nat /\ Message(s) \in Seq(Pieces) /\ Len(Message(s)) = N + 1
      /\ N \in Nat /\ N >= 1
  BY MessageFacts, NFacts
<1>2. (in[s] = Message(s)) = (Len(in[s]) = N + 1)
  BY <1>1, WholePart
<1>3. \A i \in 1 .. Len(in[s]) : in[s][i] = Message(s)[i]
  BY DEF PartOf
<1>4. Len(in[s]) <= N + 1
  BY <1>1 DEF PartOf
<1>5. CASE protocol = "JSON"
  <2>1. \A i \in 1 .. N : Message(s)[i] # End
    BY <1>5, MessageFacts, AskedFacts, MeasurementAssumption
  <2>2. Message(s)[N + 1] = End
    BY <1>5, MessageFacts
  <2>3. ASSUME NEW i \in 1 .. Len(in[s]), in[s][i] = End PROVE Len(in[s]) = N + 1
    BY <1>1, <1>3, <1>4, <2>1, <2>3
  <2>4. Len(in[s]) = N + 1 => in[s][N + 1] = End /\ N + 1 \in 1 .. Len(in[s])
    BY <1>1, <1>3, <2>2
  <2> QED
    BY <1>2, <1>5, <2>3, <2>4 DEF RequestRead, Contains
<1>6. CASE protocol # "JSON"
  <2>1. Message(s)[1] = N
    BY <1>6, MessageFacts
  <2>2. in[s] # << >> => Len(in[s]) >= 1 /\ in[s][1] = N
    BY <1>1, <1>3, <2>1
  <2>3. Len(in[s]) = N + 1 => in[s] # << >>
    BY <1>1
  <2>4. in[s] # << >> => (Len(in[s]) - 1 >= in[s][1] <=> Len(in[s]) = N + 1)
    BY <1>1, <1>4, <2>2
  <2> QED
    BY <1>2, <1>6, <2>3, <2>4 DEF RequestRead
<1> QED
  BY <1>5, <1>6

(* ... and answers it then.                                                *)
LEMMA ResponseIsAnswer ==
  ASSUME NEW s, Asked(s), in[s] = Message(s)
  PROVE  Response(s) = Answer(s)
<1>1. /\ request[s] \in Seq(Ids) /\ Len(request[s]) = N /\ N \in Nat /\ N >= 1
      /\ Message(s) \in Seq(Pieces) /\ Len(Message(s)) = N + 1
  BY AskedFacts, MessageFacts, NFacts
<1>2. Datasets(s) = request[s]
  <2>1. CASE protocol = "JSON"
    <3>1. Datasets(s) = SubSeq(Message(s), 1, N)
      BY <1>1, <2>1 DEF Datasets, Front
    <3>2. Datasets(s) \in Seq(Pieces) /\ Len(Datasets(s)) = N
      BY <1>1, <3>1, SubSeqProperties
    <3>3. \A i \in 1 .. N : Datasets(s)[i] = Message(s)[i]
      BY <1>1, <3>1, SubSeqProperties
    <3>4. \A i \in 1 .. N : Datasets(s)[i] = request[s][i]
      BY <2>1, <3>3, MessageFacts
    <3>5. request[s] \in Seq(Pieces)
      BY <1>1 DEF Pieces
    <3> QED
      BY <1>1, <3>2, <3>4, <3>5, SeqEqual
  <2>2. CASE protocol # "JSON"
    <3>1. in[s][1] = N
      BY <2>2, MessageFacts
    <3>2. Datasets(s) = SubSeq(Message(s), 2, N + 1)
      BY <2>2, <3>1 DEF Datasets
    <3>3. Datasets(s) \in Seq(Pieces) /\ Len(Datasets(s)) = N
      BY <1>1, <3>2, SubSeqProperties
    <3>4. \A i \in 1 .. N : Datasets(s)[i] = Message(s)[2 + i - 1]
      BY <1>1, <3>2, SubSeqProperties
    <3>5. \A i \in 1 .. N : Datasets(s)[i] = request[s][i]
      <4>1. \A i \in 1 .. N : 2 + i - 1 = i + 1
        BY <1>1
      <4> QED
        BY <2>2, <3>4, <4>1, MessageFacts
    <3>6. request[s] \in Seq(Pieces)
      BY <1>1 DEF Pieces
    <3> QED
      BY <1>1, <3>3, <3>5, <3>6, SeqEqual
  <2> QED
    BY <2>1, <2>2
<1> QED
  BY <1>2 DEF Response, Answer

(* The end of an answer is read when all of it has come; ...               *)
LEMMA EndMeans ==
  ASSUME NEW s \in Sessions, Asked(s), out[s] \in Seq(AnswerPieces),
         PartOf(out[s], Answer(s))
  PROVE  Contains(out[s], End) <=> protocol # "PROTO" /\ out[s] = Answer(s)
<1>1. /\ Len(out[s]) \in Nat /\ Len(out[s]) <= Len(Answer(s)) /\ N \in Nat
      /\ Answer(s) \in Seq(AnswerPieces)
      /\ Len(Answer(s)) = IF protocol = "PROTO" THEN N ELSE N + 1
  BY AnswerFacts, NFacts DEF PartOf
<1>2. \A i \in 1 .. Len(out[s]) : out[s][i] = Answer(s)[i]
  BY DEF PartOf
<1>3. (out[s] = Answer(s)) = (Len(out[s]) = Len(Answer(s)))
  BY <1>1, WholePart
<1>4. \A i \in 1 .. N : Answer(s)[i] # End
  BY AnswerFacts
<1>5. CASE protocol = "PROTO"
  BY <1>1, <1>2, <1>4, <1>5 DEF Contains
<1>6. CASE protocol # "PROTO"
  <2>1. Answer(s)[N + 1] = End
    BY <1>6, AnswerFacts
  <2>2. ASSUME NEW i \in 1 .. Len(out[s]), out[s][i] = End PROVE Len(out[s]) = N + 1
    BY <1>1, <1>2, <1>4, <1>6, <2>2
  <2>3. Len(out[s]) = N + 1 => N + 1 \in 1 .. Len(out[s]) /\ out[s][N + 1] = End
    BY <1>1, <1>2, <2>1
  <2> QED
    BY <1>1, <1>3, <1>6, <2>2, <2>3 DEF Contains
<1> QED
  BY <1>5, <1>6

(* the results read by then are those of the first datasets, ...           *)
LEMMA ResultsFacts ==
  ASSUME NEW s \in Sessions, Asked(s), out[s] \in Seq(AnswerPieces),
         PartOf(out[s], Answer(s))
  PROVE  /\ Len(Results(s)) \in 0 .. N /\ DOMAIN Results(s) = 1 .. Len(Results(s))
         /\ \A i \in DOMAIN Results(s) : Results(s)[i] = Result(s, request[s][i])
         /\ out[s] = Answer(s) => Len(Results(s)) = N
         /\ Len(Results(s)) = N /\ AnswerRead(s) => out[s] = Answer(s)
<1>1. /\ Len(out[s]) \in Nat /\ Len(out[s]) <= Len(Answer(s)) /\ N \in Nat
      /\ Answer(s) \in Seq(AnswerPieces)
      /\ Len(Answer(s)) = IF protocol = "PROTO" THEN N ELSE N + 1
  BY AnswerFacts, NFacts DEF PartOf
<1>2. \A i \in 1 .. Len(out[s]) : out[s][i] = Answer(s)[i]
  BY DEF PartOf
<1>3. (out[s] = Answer(s)) = (Len(out[s]) = Len(Answer(s)))
  BY <1>1, WholePart
<1>4. \A i \in 1 .. N : Answer(s)[i] = Result(s, request[s][i])
  BY AnswerFacts
<1>5. CASE Contains(out[s], End)
  <2>1. protocol # "PROTO" /\ out[s] = Answer(s) /\ Len(out[s]) = N + 1
    BY <1>1, <1>5, EndMeans
  <2>2. Results(s) = SubSeq(out[s], 1, N)
    BY <1>1, <1>5, <2>1 DEF Results, Front
  <2>3. \A i \in 1 .. N : out[s][i] \in AnswerPieces
    BY <1>1, <2>1
  <2>4. Results(s) \in Seq(AnswerPieces) /\ Len(Results(s)) = N
    BY <1>1, <2>2, <2>3, SubSeqProperties
  <2>5. \A i \in 1 .. N : Results(s)[i] = out[s][1 + i - 1]
    BY <1>1, <2>2, <2>3, SubSeqProperties
  <2>6. \A i \in 1 .. N : 1 + i - 1 = i
    BY <1>1
  <2>7. \A i \in 1 .. N : Results(s)[i] = Result(s, request[s][i])
    BY <1>4, <2>1, <2>5, <2>6
  <2>8. DOMAIN Results(s) = 1 .. N
    BY <2>4
  <2> QED
    BY <1>1, <2>1, <2>4, <2>7, <2>8
<1>6. CASE ~Contains(out[s], End)
  <2>1. Results(s) = out[s]
    BY <1>6 DEF Results
  <2>2. protocol # "PROTO" => out[s] # Answer(s) /\ ~AnswerRead(s)
    BY <1>6, EndMeans DEF AnswerRead
  <2>3. Len(out[s]) <= N
    <3>1. CASE protocol = "PROTO"
      BY <1>1, <3>1
    <3>2. CASE protocol # "PROTO"
      BY <1>1, <1>3, <2>2, <3>2
    <3> QED
      BY <3>1, <3>2
  <2>4. DOMAIN out[s] = 1 .. Len(out[s])
    BY <1>1
  <2>5. \A i \in 1 .. Len(out[s]) : out[s][i] = Result(s, request[s][i])
    BY <1>1, <1>2, <1>4, <2>3
  <2> QED
    BY <1>1, <1>3, <2>1, <2>2, <2>3, <2>4, <2>5
<1> QED
  BY <1>5, <1>6

(* and ResultChecker is content with all of them and with nothing less.    *)
LEMMA CheckedMeans ==
  ASSUME NEW s \in Sessions, Asked(s), out[s] \in Seq(AnswerPieces),
         PartOf(out[s], Answer(s)), AnswerRead(s)
  PROVE  Checked(s) <=> out[s] = Answer(s)
<1> DEFINE r == Results(s)
<1>1. /\ Len(r) \in 0 .. N /\ DOMAIN r = 1 .. Len(r)
      /\ \A i \in DOMAIN r : r[i] = Result(s, request[s][i])
      /\ Len(r) = N <=> out[s] = Answer(s)
  BY ResultsFacts
<1>0. DOMAIN r = 1 .. Len(r) /\ Len(r) \in Nat /\ Len(r) <= N
  <2>1. \A n \in 0 .. N : n \in Nat /\ n <= N
    BY NFacts
  <2>2. DOMAIN r = 1 .. Len(r) /\ Len(r) \in 0 .. N
    BY ResultsFacts
  <2> HIDE DEF r
  <2> QED
    BY <2>1, <2>2
<1>2. /\ DOMAIN request[s] = 1 .. N /\ N \in Nat /\ N >= 1
      /\ \A i \in 1 .. N : request[s][i] \in Ids
      /\ \A i, j \in 1 .. N : request[s][i] = request[s][j] => i = j
  BY AskedFacts, NFacts
<1> HIDE DEF r
<1>3. \A i \in DOMAIN r : i \in 1 .. N
  BY <1>0, <1>2
<1>4. \A i \in DOMAIN r : /\ r[i].id = request[s][i]
                          /\ r[i].info = <<s, request[s][i]>>
                          /\ \A t \in DataTypes : r[i].averages[t] = <<request[s][i], t>>
  <2> TAKE i \in DOMAIN r
  <2>1. request[s][i] \in Ids
    BY <1>2, <1>3
  <2>2. r[i] = Result(s, request[s][i])
    BY <1>1
  <2>3. /\ Result(s, request[s][i]).id = request[s][i]
        /\ Result(s, request[s][i]).info = <<s, request[s][i]>>
        /\ \A t \in DataTypes :
             Result(s, request[s][i]).averages[t] = <<request[s][i], t>>
    BY <2>1, ResultFacts
  <2> QED
    BY <2>2, <2>3
<1>5. \A i \in DOMAIN r : /\ r[i].info = <<s, r[i].id>>
                          /\ \A t \in DataTypes : r[i].averages[t] = <<r[i].id, t>>
                          /\ \A j \in DOMAIN r : r[j].id = r[i].id => j = i
  BY <1>2, <1>3, <1>4
<1>6. {r[i].id : i \in DOMAIN r} = {request[s][i] : i \in DOMAIN r}
  BY <1>4
<1>7. ToSet(request[s]) = {request[s][i] : i \in 1 .. N}
  BY <1>2 DEF ToSet
<1>8. {request[s][i] : i \in DOMAIN r} = {request[s][i] : i \in 1 .. N} <=> Len(r) = N
  <2>1. ASSUME {request[s][i] : i \in DOMAIN r} = {request[s][i] : i \in 1 .. N}
        PROVE  Len(r) = N
    <3>1. request[s][N] \in {request[s][i] : i \in 1 .. N}
      BY <1>2
    <3>2. PICK i \in DOMAIN r : request[s][i] = request[s][N]
      BY <2>1, <3>1
    <3>3. i \in 1 .. N /\ N \in 1 .. N
      BY <1>2, <1>3
    <3>4. i = N
      BY <1>2, <3>2, <3>3
    <3>5. N \in 1 .. Len(r)
      BY <1>0, <3>4
    <3> QED
      BY <1>0, <1>2, <3>5
  <2> QED
    BY <1>1, <2>1
<1> QED
  BY <1>1, <1>5, <1>6, <1>7, <1>8 DEF Checked, r
------------------------------------------------------------------------------
LEMMA SessionsFacts ==
  /\ Sessions = Clients \X (1 .. Transmissions)
  /\ \A c \in Clients, k \in 1 .. Transmissions :
       <<c, k>> \in Sessions /\ <<c, k>>[1] = c /\ <<c, k>>[2] = k
  /\ \A s \in Sessions : /\ s[1] \in Clients /\ s[2] \in 1 .. Transmissions
                         /\ s = <<s[1], s[2]>>
BY DEF Sessions

LEMMA SessionType ==
  ASSUME ClientsOK, NEW c \in Clients
  PROVE  Session(c) \in Sessions /\ Session(c)[1] = c /\ round[c] \in 1 .. Transmissions
BY SessionsFacts DEF ClientsOK, Session

LEMMA InitIInv == Init => IInv
<1> SUFFICES ASSUME Init PROVE IInv
  OBVIOUS
<1> USE DEF Init
<1>1. SessionsOK
  <2>1. << >> \in Seq(Pieces) /\ << >> \in Seq(AnswerPieces)
    OBVIOUS
  <2>2. \A s \in Sessions : SessionOK(s)
    BY DEF SessionOK
  <2> QED
    BY <2>1, <2>2 DEF SessionsOK
<1>2. ClientsOK
  <2>1. 1 \in 1 .. Transmissions
    BY MeasurementAssumption
  <2>2. ASSUME NEW c \in Clients PROVE ClientOK(c)
    <3>1. Session(c) \in Sessions
      BY <2>1, SessionsFacts DEF Session
    <3>2. \A k \in 1 .. Transmissions : ~Done(c, k)
      BY DEF Done
    <3> QED
      BY <3>1, <3>2, SessionsFacts DEF ClientOK
  <2> QED
    BY <2>1, <2>2 DEF ClientsOK
<1>3. BacklogOK
  BY MeasurementAssumption DEF BacklogOK, Contains
<1>4. ServerOK
  BY MeasurementAssumption DEF ServerOK, ServerGone
<1> QED
  BY <1>1, <1>2, <1>3, <1>4 DEF IInv
------------------------------------------------------------------------------
(* What a step leaves as it was.                                           *)
LEMMA SameTerms ==
  ASSUME NEW s, protocol' = protocol, request'[s] = request[s]
  PROVE  /\ Message(s)' = Message(s) /\ Answer(s)' = Answer(s)
         /\ Asked(s) <=> Asked(s)'
BY DEF Message, Answer, Asked

LEMMA SameSession ==
  ASSUME NEW s, SessionOK(s), protocol' = protocol, request'[s] = request[s],
         in'[s] = in[s], out'[s] = out[s], connection'[s] = connection[s],
         ServerGone => ServerGone', Abandoned(s) => Abandoned(s)'
  PROVE  SessionOK(s)'
BY SameTerms DEF SessionOK

LEMMA SameClient ==
  ASSUME ClientsOK, NEW c \in Clients, protocol' = protocol,
         pc'[c] = pc[c], round'[c] = round[c], ServerGone => ServerGone',
         \A k \in 1 .. Transmissions :
           /\ request'[<<c, k>>] = request[<<c, k>>] /\ in'[<<c, k>>] = in[<<c, k>>]
           /\ connection[<<c, k>>] = "none" <=> connection'[<<c, k>>] = "none"
           /\ out[<<c, k>>] = Answer(<<c, k>>) => out'[<<c, k>>] = out[<<c, k>>]
  PROVE  ClientOK(c)'
<1>1. ClientOK(c) /\ round[c] \in 1 .. Transmissions
  BY DEF ClientsOK
<1>2. Session(c)' = <<c, round[c]>> /\ Session(c) = <<c, round[c]>>
  BY DEF Session
<1>3. \A k \in 1 .. Transmissions :
        /\ Message(<<c, k>>)' = Message(<<c, k>>) /\ Answer(<<c, k>>)' = Answer(<<c, k>>)
  BY SameTerms
<1>4. PICK n \in 1 .. Transmissions : n = round[c]
  BY <1>1
<1>5. /\ Message(<<c, n>>)' = Message(<<c, n>>) /\ Session(c)' = <<c, n>>
      /\ Session(c) = <<c, n>> /\ round'[c] = n
      /\ in'[<<c, n>>] = in[<<c, n>>]
      /\ connection[<<c, n>>] = "none" <=> connection'[<<c, n>>] = "none"
  BY <1>2, <1>3, <1>4
<1>6. Message(Session(c))' = Message(Session(c))
  BY <1>5 DEF Message
<1>7. in'[Session(c)'] = in[Session(c)]
  BY <1>5
<1>8. \A k \in 1 .. Transmissions : Done(c, k)' <=> Done(c, k)
  BY DEF Done
<1>9. \A k \in 1 .. Transmissions :
        Done(c, k)' => /\ connection'[<<c, k>>] # "none"
                       /\ in'[<<c, k>>] = Message(<<c, k>>)'
                       /\ out'[<<c, k>>] = Answer(<<c, k>>)'
  BY <1>1, <1>3, <1>8 DEF ClientOK
<1>10. \A k \in 1 .. Transmissions : k > round'[c] => connection'[<<c, k>>] = "none"
  BY <1>1 DEF ClientOK
<1>11. /\ pc'[c] = "connecting" => connection'[Session(c)'] = "none"
       /\ pc'[c] \in {"writing", "waiting", "stopped"} => connection'[Session(c)'] # "none"
       /\ pc'[c] = "writing" => in'[Session(c)'] # Message(Session(c))'
       /\ pc'[c] = "waiting" => in'[Session(c)'] = Message(Session(c))'
       /\ pc'[c] = "failed" => ServerGone'
       /\ pc'[c] = "correct" => round'[c] = Transmissions
  BY <1>1, <1>5, <1>6, <1>7 DEF ClientOK
<1> QED
  BY <1>9, <1>10, <1>11 DEF ClientOK

(* A step of a client that is still at work: the other clients, and the    *)
(* sessions that are not its current one, are none of its business.        *)
Works(c) == pc[c] \in {"connecting", "writing", "waiting"}

OwnStep(c) ==
  /\ protocol' = protocol /\ serverVars' = serverVars
  /\ \A d \in Clients : d # c => pc'[d] = pc[d] /\ round'[d] = round[d]
  /\ \A s \in Sessions :
       s # Session(c) => /\ request'[s] = request[s] /\ in'[s] = in[s]
                         /\ connection'[s] = connection[s]

LEMMA OthersStay ==
  ASSUME IInv, NEW c \in Clients, Works(c), OwnStep(c)
  PROVE  /\ \A s \in Sessions : Abandoned(s) => s # Session(c) /\ Abandoned(s)'
         /\ \A s \in Sessions : s # Session(c) => SessionOK(s)'
         /\ \A d \in Clients : d # c => ClientOK(d)'
<1>1. Session(c) \in Sessions /\ Session(c)[1] = c
  BY SessionType DEF IInv
<1>2. out' = out /\ server' = server /\ (ServerGone <=> ServerGone')
  BY DEF OwnStep, serverVars, ServerGone
<1>3. \A s \in Sessions : s # Session(c) =>
        /\ Message(s)' = Message(s) /\ Answer(s)' = Answer(s)
  BY SameTerms DEF OwnStep
<1>4. ASSUME NEW s \in Sessions, Abandoned(s)
      PROVE  s # Session(c) /\ Abandoned(s)'
  <2>1. s[1] # c /\ s[1] \in Clients
    BY <1>4, SessionsFacts DEF Abandoned, Works
  <2>2. s # Session(c)
    BY <1>1, <2>1
  <2>3. pc'[s[1]] = pc[s[1]] /\ round'[s[1]] = round[s[1]] /\ in'[s] = in[s]
    BY <2>1, <2>2 DEF OwnStep
  <2> QED
    BY <1>3, <1>4, <2>2, <2>3 DEF Abandoned, Session
<1>5. ASSUME NEW s \in Sessions, s # Session(c)
      PROVE  SessionOK(s)'
  <2>1. SessionOK(s)
    BY DEF IInv, SessionsOK
  <2> QED
    BY <1>2, <1>4, <1>5, <2>1, SameSession DEF OwnStep
<1>6. ASSUME NEW d \in Clients, d # c
      PROVE  ClientOK(d)'
  <2>1. \A k \in 1 .. Transmissions : <<d, k>> \in Sessions /\ <<d, k>> # Session(c)
    BY <1>1, <1>6, SessionsFacts
  <2> QED
    BY <1>2, <1>6, <2>1, SameClient DEF OwnStep, IInv
<1> QED
  BY <1>4, <1>5, <1>6

LEMMA ServerStays ==
  ASSUME IInv, NEW c \in Clients, Works(c), OwnStep(c),
         request' = request \/ (connection[Session(c)] = "none" /\ ~ServerGone),
         backlog' = backlog \/ ~ServerGone
  PROVE  ServerOK'
<1> USE DEF IInv
<1>1. /\ server' = server /\ serving' = serving /\ response' = response /\ out' = out
      /\ protocol' = protocol /\ (ServerGone <=> ServerGone')
  BY DEF OwnStep, serverVars, ServerGone
<1>2. ASSUME serving \in Sessions
      PROVE  /\ RestOf(serving) => RestOf(serving)'
             /\ Abandoned(serving) => Abandoned(serving)'
  <2>1. PICK s \in Sessions : s = serving
    BY <1>2
  <2>2. request'[s] = request[s]
    BY <1>2, <2>1 DEF BacklogOK, OwnStep
  <2>3. Answer(s)' = Answer(s)
    BY <1>1, <2>2, SameTerms
  <2>4. Abandoned(s) => Abandoned(s)'
    BY OthersStay
  <2>5. RestOf(s) => RestOf(s)'
    BY <1>1, <2>3 DEF RestOf
  <2>6. serving' = s
    BY <1>1, <2>1
  <2>7. /\ RestOf(serving) = RestOf(s) /\ RestOf(serving)' = RestOf(s)'
        /\ Abandoned(serving) = Abandoned(s) /\ Abandoned(serving)' = Abandoned(s)'
    BY <2>1, <2>6 DEF RestOf, Abandoned, Answer, Message
  <2> QED
    BY <2>4, <2>5, <2>7
<1>3. ASSUME server = "ended"
      PROVE  \E d \in Clients : pc'[d] = "stopped" /\ in'[Session(d)'] # Message(Session(d))'
  <2>1. PICK d \in Clients : pc[d] = "stopped" /\ in[Session(d)] # Message(Session(d))
    BY <1>3 DEF ServerOK
  <2>2. d # c
    BY <2>1 DEF Works
  <2>3. Session(d) \in Sessions /\ Session(d)[1] = d /\ Session(c)[1] = c
    BY SessionType
  <2>4. PICK s \in Sessions : s = Session(d)
    BY <2>3
  <2>5. s # Session(c)
    BY <2>2, <2>3, <2>4
  <2>6. Session(d)' = s /\ pc'[d] = "stopped" /\ in'[s] = in[s]
    BY <2>1, <2>2, <2>4, <2>5 DEF OwnStep, Session
  <2>7. Message(s)' = Message(s)
    BY <2>5, SameTerms DEF OwnStep
  <2>8. in'[Session(d)'] # Message(Session(d))'
    BY <2>1, <2>4, <2>6, <2>7 DEF Message
  <2> QED
    BY <2>6, <2>8
<1>4. ServerGone => backlog' = << >>
  BY DEF ServerOK
<1> QED
  BY <1>1, <1>2, <1>3, <1>4 DEF ServerOK
------------------------------------------------------------------------------
(* A client that only reads, fails or is stopped.                          *)
LEMMA QuietStep ==
  ASSUME IInv, NEW c \in Clients, Works(c),
         \A d \in Clients : d # c => pc'[d] = pc[d] /\ round'[d] = round[d],
         UNCHANGED <<protocol, request, in, serverVars, connection, backlog>>
  PROVE  /\ SessionsOK' /\ BacklogOK' /\ ServerOK'
         /\ \A d \in Clients : d # c => ClientOK(d)'
         /\ \A s \in Sessions : Message(s)' = Message(s) /\ Answer(s)' = Answer(s)
<1> USE DEF IInv
<1>1. OwnStep(c)
  BY DEF OwnStep
<1>2. ServerOK'
  BY <1>1, ServerStays
<1>3. \A d \in Clients : d # c => ClientOK(d)'
  BY <1>1, OthersStay
<1>4. out' = out /\ (ServerGone => ServerGone') /\ serving' = serving
  BY DEF serverVars, ServerGone
<1>5. ASSUME NEW s \in Sessions PROVE SessionOK(s)'
  <2>1. Abandoned(s) => Abandoned(s)'
    BY <1>1, OthersStay
  <2> QED
    BY <1>4, <2>1, SameSession DEF SessionsOK
<1>6. SessionsOK'
  BY <1>4, <1>5 DEF SessionsOK
<1>7. BacklogOK'
  BY <1>4 DEF BacklogOK
<1>8. \A s \in Sessions : Message(s)' = Message(s) /\ Answer(s)' = Answer(s)
  BY SameTerms
<1> QED
  BY <1>2, <1>3, <1>6, <1>7, <1>8

LEMMA FailStep ==
  ASSUME IInv, NEW c \in Clients, Fail(c) \/ Stop(c)
  PROVE  IInv'
<1>1. /\ Works(c) /\ round' = round
      /\ UNCHANGED <<protocol, request, in, serverVars, connection, backlog>>
  BY DEF Fail, Stop, Works
<1>2. pc \in [Clients -> {"connecting", "writing", "waiting", "correct", "failed", "stopped"}]
  BY DEF IInv, ClientsOK
<1>3. /\ pc' \in [Clients -> {"connecting", "writing", "waiting", "correct", "failed", "stopped"}]
      /\ \A d \in Clients : d # c => pc'[d] = pc[d]
      /\ pc'[c] = "failed" \/ (pc'[c] = "stopped" /\ pc[c] # "connecting")
  BY <1>2 DEF Fail, Stop
<1>4. /\ SessionsOK' /\ BacklogOK' /\ ServerOK'
      /\ \A d \in Clients : d # c => ClientOK(d)'
      /\ \A s \in Sessions : Message(s)' = Message(s) /\ Answer(s)' = Answer(s)
  BY <1>1, <1>3, QuietStep
<1>5. Session(c)' = Session(c) /\ Session(c) \in Sessions
  BY <1>1, SessionType DEF IInv, Session
<1>6. pc'[c] = "failed" => ServerGone
  <2>1. Stop(c) => pc'[c] # "failed"
    BY <1>2 DEF Stop
  <2>2. connection[Session(c)] = "cut" => ServerGone
    BY <1>5 DEF IInv, SessionsOK, SessionOK
  <2> QED
    BY <2>1, <2>2 DEF Fail
<1>7. ServerGone' <=> ServerGone
  BY <1>1 DEF ServerGone, serverVars
<1>8. ClientOK(c)'
  <2>1. ClientOK(c) /\ round[c] \in 1 .. Transmissions
    BY DEF IInv, ClientsOK
  <2>2. \A k \in 1 .. Transmissions : Done(c, k)' => Done(c, k)
    BY <1>1, <1>3 DEF Done
  <2>3. out' = out
    BY <1>1 DEF serverVars
  <2>4. \A k \in 1 .. Transmissions :
          Done(c, k)' => /\ connection'[<<c, k>>] # "none"
                         /\ in'[<<c, k>>] = Message(<<c, k>>)'
                         /\ out'[<<c, k>>] = Answer(<<c, k>>)'
    BY <1>1, <1>4, <2>1, <2>2, <2>3, SessionsFacts DEF ClientOK
  <2>5. pc'[c] = "stopped" => connection'[Session(c)'] # "none"
    BY <1>1, <1>3, <1>5, <2>1 DEF ClientOK, Works
  <2>6. \A k \in 1 .. Transmissions : k > round'[c] => connection'[<<c, k>>] = "none"
    BY <1>1, <2>1 DEF ClientOK
  <2> QED
    BY <1>3, <1>6, <1>7, <2>4, <2>5, <2>6 DEF ClientOK
<1>9. ClientsOK'
  BY <1>1, <1>3, <1>4, <1>8 DEF IInv, ClientsOK
<1> QED
  BY <1>4, <1>9 DEF IInv

(* While the server runs, what a waiting client takes for the answer is    *)
(* the whole answer.                                                       *)
LEMMA AnswerReadIsWhole ==
  ASSUME IInv, NEW c \in Clients, pc[c] = "waiting", AnswerRead(Session(c)), ~ServerGone
  PROVE  out[Session(c)] = Answer(Session(c))
<1>1. PICK s \in Sessions : s = Session(c)
  BY SessionType DEF IInv
<1>2. /\ connection[s] # "none" /\ Asked(s) /\ PartOf(out[s], Answer(s))
      /\ out[s] \in Seq(AnswerPieces) /\ connection[s] # "cut" /\ ~Abandoned(s)
      /\ connection[s] \in {"none", "open", "closed", "cut"}
      /\ connection[s] = "closed" => out[s] = Answer(s)
  <2>1. ClientOK(c) /\ SessionOK(s)
    BY DEF IInv, ClientsOK, SessionsOK
  <2>2. connection[s] # "none" /\ s[1] = c
    BY <1>1, <2>1, SessionType DEF ClientOK, IInv
  <2>3. ~Abandoned(s)
    BY <2>2 DEF Abandoned
  <2>4. connection[s] \in {"none", "open", "closed", "cut"} /\ out[s] \in Seq(AnswerPieces)
    BY DEF IInv, SessionsOK
  <2> QED
    BY <2>1, <2>2, <2>3, <2>4 DEF SessionOK
<1>3. CASE protocol = "PROTO"
  BY <1>1, <1>2, <1>3 DEF AnswerRead
<1>4. CASE protocol # "PROTO"
  <2>1. Contains(out[s], End)
    BY <1>1, <1>4 DEF AnswerRead
  <2> QED
    BY <1>1, <1>2, <2>1, EndMeans
<1> QED
  BY <1>3, <1>4

LEMMA ReadAnswerStep ==
  ASSUME IInv, NEW c \in Clients, ReadAnswer(c)
  PROVE  IInv'
<1> DEFINE s == Session(c)
<1>1. /\ pc[c] = "waiting" /\ Works(c) /\ AnswerRead(s)
      /\ UNCHANGED <<protocol, request, in, serverVars, connection, backlog>>
  BY DEF ReadAnswer, Works
<1>2. /\ pc \in [Clients -> {"connecting", "writing", "waiting", "correct", "failed", "stopped"}]
      /\ round \in [Clients -> 1 .. Transmissions] /\ ClientOK(c)
  BY DEF IInv, ClientsOK
<1>3. \/ ~Checked(s) /\ pc' = [pc EXCEPT ![c] = "failed"] /\ round' = round
      \/ /\ Checked(s) /\ round[c] = Transmissions
         /\ pc' = [pc EXCEPT ![c] = "correct"] /\ round' = round
      \/ /\ Checked(s) /\ round[c] # Transmissions
         /\ pc' = [pc EXCEPT ![c] = "connecting"] /\ round' = [round EXCEPT ![c] = @ + 1]
  BY DEF ReadAnswer
<1>4. \A d \in Clients : d # c => pc'[d] = pc[d] /\ round'[d] = round[d]
  BY <1>2, <1>3
<1>5. /\ SessionsOK' /\ BacklogOK' /\ ServerOK'
      /\ \A d \in Clients : d # c => ClientOK(d)'
      /\ \A x \in Sessions : Message(x)' = Message(x) /\ Answer(x)' = Answer(x)
  BY <1>1, <1>4, QuietStep
<1>6. PICK k \in 1 .. Transmissions : k = round[c]
  BY <1>2
<1>7. s = <<c, k>> /\ s \in Sessions
  BY <1>6, SessionsFacts DEF Session
<1>8. /\ connection[s] # "none" /\ in[s] = Message(s) /\ Asked(s)
      /\ out[s] \in Seq(AnswerPieces) /\ PartOf(out[s], Answer(s))
  BY <1>1, <1>2, <1>7 DEF ClientOK, IInv, SessionsOK, SessionOK
<1>9. Checked(s) <=> out[s] = Answer(s)
  BY <1>1, <1>7, <1>8, CheckedMeans
<1>10. out' = out /\ (ServerGone' <=> ServerGone)
  BY <1>1 DEF serverVars, ServerGone
<1>11. CASE ~Checked(s)
  <2>1. ServerGone
    BY <1>1, <1>9, <1>11, AnswerReadIsWhole
  <2>2. pc'[c] = "failed" /\ round' = round
        /\ pc' \in [Clients -> {"connecting", "writing", "waiting", "correct", "failed", "stopped"}]
    BY <1>2, <1>3, <1>11
  <2>3. \A n \in 1 .. Transmissions : Done(c, n)' => Done(c, n)
    BY <2>2 DEF Done
  <2>4. \A n \in 1 .. Transmissions :
          /\ Done(c, n)' => /\ connection'[<<c, n>>] # "none"
                            /\ in'[<<c, n>>] = Message(<<c, n>>)'
                            /\ out'[<<c, n>>] = Answer(<<c, n>>)'
          /\ n > round'[c] => connection'[<<c, n>>] = "none"
    BY <1>1, <1>2, <1>5, <1>10, <2>2, <2>3, SessionsFacts DEF ClientOK
  <2>5. ClientOK(c)'
    BY <1>10, <2>1, <2>2, <2>4 DEF ClientOK
  <2> QED
    BY <1>2, <1>5, <2>2, <2>5 DEF IInv, ClientsOK
<1>12. CASE Checked(s)
  <2>1. \A n \in 1 .. Transmissions :
          Done(c, n) \/ n = k => /\ connection[<<c, n>>] # "none"
                                 /\ in[<<c, n>>] = Message(<<c, n>>)
                                 /\ out[<<c, n>>] = Answer(<<c, n>>)
    BY <1>2, <1>7, <1>8, <1>9, <1>12 DEF ClientOK
  <2>2. CASE k = Transmissions
    <3>1. pc'[c] = "correct" /\ round' = round
          /\ pc' \in [Clients -> {"connecting", "writing", "waiting", "correct", "failed", "stopped"}]
      BY <1>2, <1>3, <1>6, <1>12, <2>2
    <3>2. \A n \in 1 .. Transmissions : Done(c, n)' => Done(c, n) \/ n = k
      BY <1>6, <3>1 DEF Done
    <3>3. \A n \in 1 .. Transmissions :
            /\ Done(c, n)' => /\ connection'[<<c, n>>] # "none"
                              /\ in'[<<c, n>>] = Message(<<c, n>>)'
                              /\ out'[<<c, n>>] = Answer(<<c, n>>)'
            /\ n > round'[c] => connection'[<<c, n>>] = "none"
      BY <1>1, <1>2, <1>5, <1>10, <2>1, <3>1, <3>2, SessionsFacts DEF ClientOK
    <3>4. ClientOK(c)'
      BY <1>6, <2>2, <3>1, <3>3 DEF ClientOK
    <3> QED
      BY <1>2, <1>5, <3>1, <3>4 DEF IInv, ClientsOK
  <2>3. CASE k # Transmissions
    <3>1. /\ pc'[c] = "connecting" /\ round'[c] = k + 1
          /\ pc' \in [Clients -> {"connecting", "writing", "waiting", "correct", "failed", "stopped"}]
          /\ round' = [round EXCEPT ![c] = k + 1]
      BY <1>2, <1>3, <1>6, <1>12, <2>3
    <3>2. k + 1 \in 1 .. Transmissions /\ k + 1 > k
      BY <2>3, MeasurementAssumption
    <3>3. round' \in [Clients -> 1 .. Transmissions]
      BY <1>2, <3>1, <3>2
    <3>4. \A n \in 1 .. Transmissions : Done(c, n)' => Done(c, n) \/ n = k
      BY <1>6, <3>1 DEF Done
    <3>5. \A n \in 1 .. Transmissions :
            Done(c, n)' => /\ connection'[<<c, n>>] # "none"
                           /\ in'[<<c, n>>] = Message(<<c, n>>)'
                           /\ out'[<<c, n>>] = Answer(<<c, n>>)'
      BY <1>1, <1>5, <1>10, <2>1, <3>4, SessionsFacts
    <3>6. \A n \in 1 .. Transmissions : n > k => connection[<<c, n>>] = "none"
      BY <1>2, <1>6 DEF ClientOK
    <3>7. \A n \in 1 .. Transmissions : n > k + 1 => n > k
      OBVIOUS
    <3>8. \A n \in 1 .. Transmissions : n > round'[c] => connection'[<<c, n>>] = "none"
      BY <1>1, <3>1, <3>6, <3>7
    <3>9. Session(c)' = <<c, k + 1>> /\ connection[<<c, k + 1>>] = "none"
      BY <3>1, <3>2, <3>6 DEF Session
    <3>10. ClientOK(c)'
      BY <1>1, <3>1, <3>5, <3>8, <3>9 DEF ClientOK
    <3> QED
      BY <1>5, <3>1, <3>3, <3>10 DEF IInv, ClientsOK
  <2> QED
    BY <2>2, <2>3
<1> QED
  BY <1>11, <1>12

LEMMA WriteStep ==
  ASSUME IInv, NEW c \in Clients, Write(c)
  PROVE  IInv'
<1> USE DEF IInv
<1>1. PICK s \in Sessions : s = Session(c)
  BY SessionType
<1> DEFINE sent == Append(in[s], Message(s)[Len(in[s]) + 1])
<1>2. /\ pc[c] = "writing" /\ Works(c)
      /\ in' = [in EXCEPT ![s] = sent]
      /\ pc' = [pc EXCEPT ![c] = IF sent = Message(s) THEN "waiting" ELSE "writing"]
      /\ UNCHANGED <<protocol, round, request, serverVars, connection, backlog>>
  BY <1>1 DEF Write, Works
<1>3. /\ pc \in [Clients -> {"connecting", "writing", "waiting", "correct", "failed", "stopped"}]
      /\ round \in [Clients -> 1 .. Transmissions] /\ ClientOK(c)
  BY DEF ClientsOK
<1>4. /\ in \in [Sessions -> Seq(Pieces)] /\ connection[s] # "none" /\ in[s] # Message(s)
      /\ Asked(s) /\ PartOf(in[s], Message(s)) /\ SessionOK(s)
  BY <1>1, <1>2, <1>3 DEF ClientOK, SessionsOK, SessionOK
<1>5. /\ Message(s) \in Seq(Pieces) /\ Len(Message(s)) = N + 1 /\ N \in Nat
      /\ in[s] \in Seq(Pieces) /\ Len(in[s]) \in Nat
  BY <1>4, MessageFacts, NFacts
<1>6. Len(in[s]) < Len(Message(s))
  <2>1. Len(in[s]) # Len(Message(s))
    BY <1>4, <1>5, WholePart
  <2> QED
    BY <1>4, <1>5, <2>1 DEF PartOf
<1>7. /\ sent \in Seq(Pieces) /\ PartOf(sent, Message(s))
  <2>1. Message(s)[Len(in[s]) + 1] \in Pieces
    BY <1>5, <1>6
  <2>2. sent \in Seq(Pieces) /\ Len(sent) = Len(in[s]) + 1
    BY <1>5, <2>1
  <2>3. \A i \in 1 .. Len(in[s]) + 1 :
          sent[i] = IF i = Len(in[s]) + 1 THEN Message(s)[Len(in[s]) + 1] ELSE in[s][i]
    BY <1>5, <2>1
  <2>4. \A i \in 1 .. Len(in[s]) + 1 : sent[i] = Message(s)[i]
    BY <1>4, <1>5, <2>3 DEF PartOf
  <2> QED
    BY <1>5, <1>6, <2>2, <2>4 DEF PartOf
<1> HIDE DEF sent
<1>8. /\ in' \in [Sessions -> Seq(Pieces)] /\ in'[s] = sent
      /\ \A x \in Sessions : x # s => in'[x] = in[x]
  BY <1>2, <1>4, <1>7
<1>9. /\ pc' \in [Clients -> {"connecting", "writing", "waiting", "correct", "failed", "stopped"}]
      /\ \A d \in Clients : d # c => pc'[d] = pc[d]
      /\ pc'[c] = IF sent = Message(s) THEN "waiting" ELSE "writing"
  BY <1>2, <1>3
<1>10. OwnStep(c)
  BY <1>1, <1>2, <1>8, <1>9 DEF OwnStep
<1>11. ServerOK'
  BY <1>2, <1>10, ServerStays
<1>12. /\ \A x \in Sessions : Abandoned(x) => x # s
       /\ \A x \in Sessions : x # s => SessionOK(x)'
       /\ \A d \in Clients : d # c => ClientOK(d)'
  BY <1>1, <1>2, <1>10, OthersStay
<1>13. \A x \in Sessions : /\ Message(x)' = Message(x) /\ Answer(x)' = Answer(x)
                           /\ Asked(x) <=> Asked(x)'
  BY <1>2, SameTerms
<1>14. out' = out /\ serving' = serving /\ (ServerGone <=> ServerGone')
  BY <1>2 DEF serverVars, ServerGone
<1>15. SessionOK(s)'
  BY <1>2, <1>4, <1>7, <1>8, <1>12, <1>13, <1>14 DEF SessionOK
<1>16. SessionsOK'
  BY <1>2, <1>8, <1>12, <1>14, <1>15 DEF SessionsOK
<1>17. BacklogOK'
  BY <1>2, <1>14 DEF BacklogOK
<1>18. Session(c)' = s
  BY <1>1, <1>2 DEF Session
<1>19. ClientOK(c)'
  <2>1. PICK k \in 1 .. Transmissions : k = round[c]
    BY <1>3
  <2>2. s = <<c, k>>
    BY <1>1, <2>1 DEF Session
  <2>3. \A n \in 1 .. Transmissions : Done(c, n)' => Done(c, n) /\ <<c, n>> # s
    BY <1>2, <1>9, <2>1, <2>2 DEF Done
  <2>4. \A n \in 1 .. Transmissions :
          /\ Done(c, n)' => /\ connection'[<<c, n>>] # "none"
                            /\ in'[<<c, n>>] = Message(<<c, n>>)'
                            /\ out'[<<c, n>>] = Answer(<<c, n>>)'
          /\ n > round'[c] => connection'[<<c, n>>] = "none"
    BY <1>2, <1>3, <1>8, <1>13, <1>14, <2>3, SessionsFacts DEF ClientOK
  <2>5. Message(Session(c))' = Message(s)
    BY <1>13, <1>18 DEF Message
  <2> QED
    BY <1>2, <1>4, <1>8, <1>9, <1>18, <2>4, <2>5 DEF ClientOK
<1>20. ClientsOK'
  BY <1>2, <1>3, <1>9, <1>12, <1>19 DEF ClientsOK
<1> QED
  BY <1>11, <1>16, <1>17, <1>20

LEMMA ContainsAppend ==
  ASSUME NEW A, NEW q \in Seq(A), NEW e \in A
  PROVE  /\ Append(q, e) \in Seq(A) /\ Len(Append(q, e)) = Len(q) + 1
         /\ \A i \in 1 .. Len(q) + 1 : Append(q, e)[i] = IF i = Len(q) + 1 THEN e ELSE q[i]
         /\ \A x : Contains(Append(q, e), x) <=> Contains(q, x) \/ x = e
<1>1. /\ Append(q, e) \in Seq(A) /\ Len(Append(q, e)) = Len(q) + 1 /\ Len(q) \in Nat
      /\ \A i \in 1 .. Len(q) + 1 : Append(q, e)[i] = IF i = Len(q) + 1 THEN e ELSE q[i]
  OBVIOUS
<1>2. ASSUME NEW x PROVE Contains(Append(q, e), x) <=> Contains(q, x) \/ x = e
  <2>1. ASSUME NEW i \in 1 .. Len(q) + 1, Append(q, e)[i] = x
        PROVE  Contains(q, x) \/ x = e
    BY <1>1, <2>1 DEF Contains
  <2>2. ASSUME NEW i \in 1 .. Len(q), q[i] = x
        PROVE  \E j \in 1 .. Len(q) + 1 : Append(q, e)[j] = x
    <3>1. i \in 1 .. Len(q) + 1 /\ i # Len(q) + 1
      BY <1>1
    <3> QED
      BY <1>1, <2>2, <3>1
  <2>3. Len(q) + 1 \in 1 .. Len(q) + 1
    BY <1>1
  <2>4. Append(q, e)[Len(q) + 1] = e
    BY <1>1, <2>3
  <2> QED
    BY <1>1, <2>1, <2>2, <2>3, <2>4 DEF Contains
<1> QED
  BY <1>1, <1>2

LEMMA ConnectStep ==
  ASSUME IInv, NEW c \in Clients, Connect(c)
  PROVE  IInv'
<1> USE DEF IInv
<1>1. PICK s \in Sessions : s = Session(c)
  BY SessionType
<1>2. /\ pc[c] = "connecting" /\ Works(c) /\ ~ServerGone
      /\ connection' = [connection EXCEPT ![s] = "open"]
      /\ backlog' = Append(backlog, s)
      /\ pc' = [pc EXCEPT ![c] = "writing"]
      /\ UNCHANGED <<protocol, round, in, serverVars>>
  BY <1>1 DEF Connect, Works
<1>3. PICK ids \in SetToSeqs(Ids) : request' = [request EXCEPT ![s] = ids]
  BY <1>1 DEF Connect
<1>4. /\ pc \in [Clients -> {"connecting", "writing", "waiting", "correct", "failed", "stopped"}]
      /\ round \in [Clients -> 1 .. Transmissions] /\ ClientOK(c)
  BY DEF ClientsOK
<1>5. /\ connection[s] = "none" /\ in[s] = << >> /\ out[s] = << >> /\ SessionOK(s)
  BY <1>1, <1>2, <1>4 DEF ClientOK, SessionsOK, SessionOK
<1>6. /\ connection' \in [Sessions -> {"none", "open", "closed", "cut"}]
      /\ connection'[s] = "open"
      /\ \A x \in Sessions : x # s => connection'[x] = connection[x]
  BY <1>2 DEF SessionsOK
<1>7. /\ request' \in [Sessions -> SetToSeqs(Ids) \union {<< >>}] /\ request'[s] = ids
      /\ \A x \in Sessions : x # s => request'[x] = request[x]
  BY <1>3 DEF SessionsOK
<1>8. /\ pc' \in [Clients -> {"connecting", "writing", "waiting", "correct", "failed", "stopped"}]
      /\ \A d \in Clients : d # c => pc'[d] = pc[d]
      /\ pc'[c] = "writing"
  BY <1>2, <1>4
<1>9. OwnStep(c)
  BY <1>1, <1>2, <1>6, <1>7, <1>8 DEF OwnStep
<1>10. ServerOK'
  BY <1>1, <1>2, <1>5, <1>9, ServerStays
<1>11. /\ \A x \in Sessions : Abandoned(x) => x # s
       /\ \A x \in Sessions : x # s => SessionOK(x)'
       /\ \A d \in Clients : d # c => ClientOK(d)'
  BY <1>1, <1>2, <1>9, OthersStay
<1>12. /\ ids \in Seq(Ids) /\ DOMAIN ids = 1 .. N /\ N \in Nat /\ Len(ids) = N
       /\ \A i \in 1 .. N : ids[i] \in Ids
  <2>1. ids \in [1 .. N -> Ids]
    BY DEF SetToSeqs, N
  <2>2. ids \in Seq(Ids)
    BY <2>1, NFacts, SeqDef
  <2> QED
    BY <2>1, <2>2, NFacts, LenProperties
<1>13. Len(Message(s)') \in Nat /\ Len(Message(s)') # 0
  <2>1. Message(s)' = IF protocol = "JSON" THEN Append(ids, End) ELSE <<N>> \o ids
    BY <1>2, <1>7, <1>12 DEF Message
  <2>2. ids \in Seq(Pieces) /\ End \in Pieces /\ <<N>> \in Seq(Pieces)
    BY <1>12 DEF Pieces
  <2>3. Len(Append(ids, End)) = N + 1
    BY <1>12, <2>2
  <2>4. Len(<<N>> \o ids) = N + 1
    BY <1>12, <2>2, ConcatProperties
  <2> QED
    BY <1>12, <2>1, <2>3, <2>4
<1>14. Len(Answer(s)') \in Nat
  <2> DEFINE results == [i \in 1 .. N |-> Result(s, ids[i])]
  <2>1. Answer(s)' = IF protocol = "PROTO" THEN results ELSE Append(results, End)
    BY <1>2, <1>7, <1>12 DEF Answer
  <2>2. \A i \in 1 .. N : Result(s, ids[i]) \in AnswerPieces
    BY <1>12, ResultFacts DEF AnswerPieces
  <2>3. results \in Seq(AnswerPieces)
    BY <1>12, <2>2, SeqDef
  <2>4. End \in AnswerPieces
    BY DEF AnswerPieces
  <2> HIDE DEF results
  <2>5. Append(results, End) \in Seq(AnswerPieces)
    BY <2>3, <2>4
  <2> QED
    BY <2>1, <2>3, <2>5
<1>15. out' = out /\ serving' = serving /\ (ServerGone <=> ServerGone')
  BY <1>2 DEF serverVars, ServerGone
<1>16. Len(<< >>) = 0
  OBVIOUS
<1>17. SessionOK(s)'
  <2>1. Asked(s)'
    BY <1>7 DEF Asked
  <2>2. in'[s] = << >> /\ out'[s] = << >>
    BY <1>2, <1>5, <1>15
  <2>3. PartOf(in[s], Message(s))' /\ PartOf(out[s], Answer(s))'
    BY <1>13, <1>14, <1>16, <2>2 DEF PartOf
  <2> QED
    BY <1>6, <2>1, <2>3 DEF SessionOK
<1>18. SessionsOK'
  BY <1>2, <1>6, <1>7, <1>11, <1>15, <1>17 DEF SessionsOK
<1>19. Session(c)' = s
  BY <1>1, <1>2 DEF Session
<1>20. ClientOK(c)'
  <2>1. PICK k \in 1 .. Transmissions : k = round[c]
    BY <1>4
  <2>2. s = <<c, k>>
    BY <1>1, <2>1 DEF Session
  <2>3. \A n \in 1 .. Transmissions : Done(c, n)' => Done(c, n) /\ <<c, n>> # s
    BY <1>2, <1>8, <2>1, <2>2 DEF Done
  <2>4. \A n \in 1 .. Transmissions : <<c, n>> # s =>
          /\ Message(<<c, n>>)' = Message(<<c, n>>) /\ Answer(<<c, n>>)' = Answer(<<c, n>>)
    BY <1>2, <1>7, SameTerms, SessionsFacts
  <2>5. \A n \in 1 .. Transmissions : n > k => <<c, n>> # s
    BY <2>2
  <2>6. \A n \in 1 .. Transmissions :
          Done(c, n)' => /\ connection'[<<c, n>>] # "none"
                         /\ in'[<<c, n>>] = Message(<<c, n>>)'
                         /\ out'[<<c, n>>] = Answer(<<c, n>>)'
    BY <1>2, <1>4, <1>6, <1>15, <2>3, <2>4, SessionsFacts DEF ClientOK
  <2>7. \A n \in 1 .. Transmissions : n > round'[c] => connection'[<<c, n>>] = "none"
    BY <1>2, <1>4, <1>6, <2>1, <2>5, SessionsFacts DEF ClientOK
  <2>8. in'[s] # Message(s)'
    BY <1>2, <1>5, <1>13, <1>16
  <2>9. in'[Session(c)'] # Message(Session(c))'
    BY <1>19, <2>8 DEF Message
  <2> QED
    BY <1>6, <1>8, <1>19, <2>6, <2>7, <2>9 DEF ClientOK
<1>21. ClientsOK'
  BY <1>2, <1>4, <1>8, <1>11, <1>20 DEF ClientsOK
<1>22. BacklogOK'
  <2>1. ~Contains(backlog, s) /\ serving # s
    BY <1>5 DEF BacklogOK
  <2>2. /\ backlog' \in Seq(Sessions) /\ Len(backlog') = Len(backlog) + 1
        /\ \A i \in 1 .. Len(backlog) + 1 :
             backlog'[i] = IF i = Len(backlog) + 1 THEN s ELSE backlog[i]
        /\ \A x : Contains(backlog', x) <=> Contains(backlog, x) \/ x = s
    BY <1>2, ContainsAppend DEF BacklogOK
  <2>3. \A i \in 1 .. Len(backlog) : backlog[i] # s
    BY <2>1 DEF Contains
  <2>4. Len(backlog) \in Nat
    BY DEF BacklogOK
  <2>5. \A i, j \in 1 .. Len(backlog') : backlog'[i] = backlog'[j] => i = j
    BY <2>2, <2>3, <2>4 DEF BacklogOK
  <2>6. \A x \in Sessions : connection'[x] = "open" <=> x = serving' \/ Contains(backlog', x)
    BY <1>6, <1>15, <2>1, <2>2 DEF BacklogOK
  <2>7. \A x \in Sessions : Contains(backlog', x) => x # serving' /\ out'[x] = << >>
    BY <1>5, <1>15, <2>1, <2>2 DEF BacklogOK
  <2> QED
    BY <2>2, <2>5, <2>6, <2>7 DEF BacklogOK
<1> QED
  BY <1>10, <1>18, <1>21, <1>22
------------------------------------------------------------------------------
(* A step of the server leaves the clients where they are, and what it     *)
(* writes changes no answer that is complete.                              *)
LEMMA ServerFrame ==
  ASSUME IInv, protocol' = protocol, clientVars' = clientVars,
         ServerGone => ServerGone',
         \A s \in Sessions :
           /\ connection[s] = "none" <=> connection'[s] = "none"
           /\ out[s] = Answer(s) => out'[s] = out[s]
  PROVE  /\ ClientsOK'
         /\ \A s \in Sessions : /\ Message(s)' = Message(s) /\ Answer(s)' = Answer(s)
                                /\ Asked(s) <=> Asked(s)'
                                /\ Abandoned(s) => Abandoned(s)'
<1>1. pc' = pc /\ round' = round /\ request' = request /\ in' = in
  BY DEF clientVars
<1>2. \A s \in Sessions : /\ Message(s)' = Message(s) /\ Answer(s)' = Answer(s)
                          /\ Asked(s) <=> Asked(s)'
  BY <1>1, SameTerms
<1>3. \A s \in Sessions : Abandoned(s) => Abandoned(s)'
  BY <1>1, <1>2 DEF Abandoned, Session
<1>4. ASSUME NEW c \in Clients PROVE ClientOK(c)'
  <2>1. ClientsOK
    BY DEF IInv
  <2> QED
    BY <1>1, <2>1, SameClient, SessionsFacts
<1>5. ClientsOK'
  BY <1>1, <1>4 DEF IInv, ClientsOK
<1> QED
  BY <1>2, <1>3, <1>5

LEMMA AcceptStep ==
  ASSUME IInv, Accept
  PROVE  IInv'
<1> USE DEF IInv
<1>1. /\ server = "waiting" /\ backlog # << >> /\ serving' = Head(backlog)
      /\ backlog' = Tail(backlog) /\ server' = "reading" /\ response' = response
      /\ out' = out /\ connection' = connection /\ protocol' = protocol
      /\ clientVars' = clientVars
  BY DEF Accept
<1>2. ~ServerGone /\ ~ServerGone' /\ serving = NoSession /\ response = << >>
  BY <1>1 DEF ServerOK, ServerGone
<1>3. /\ ClientsOK'
      /\ \A s \in Sessions : /\ Message(s)' = Message(s) /\ Answer(s)' = Answer(s)
                             /\ Asked(s) <=> Asked(s)'
                             /\ Abandoned(s) => Abandoned(s)'
  BY <1>1, <1>2, ServerFrame
<1>4. request' = request /\ in' = in /\ pc' = pc /\ round' = round
  BY <1>1 DEF clientVars
<1>5. SessionsOK'
  <2>1. \A s \in Sessions : SessionOK(s)'
    BY <1>1, <1>2, <1>3, <1>4, SameSession DEF SessionsOK
  <2> QED
    BY <1>1, <1>4, <2>1 DEF SessionsOK
<1>6. /\ backlog \in Seq(Sessions) /\ Len(backlog) \in Nat /\ Len(backlog) # 0
      /\ serving' = backlog[1] /\ serving' \in Sessions
      /\ backlog' \in Seq(Sessions) /\ Len(backlog') = Len(backlog) - 1
      /\ \A i \in 1 .. Len(backlog') : backlog'[i] = backlog[i + 1]
  BY <1>1 DEF BacklogOK
<1>7. \A i, j \in 1 .. Len(backlog) : backlog[i] = backlog[j] => i = j
  BY DEF BacklogOK
<1>8. \A i, j \in 1 .. Len(backlog') : backlog'[i] = backlog'[j] => i = j
  <2> SUFFICES ASSUME NEW i \in 1 .. Len(backlog'), NEW j \in 1 .. Len(backlog'),
                      backlog'[i] = backlog'[j]
               PROVE  i = j
    OBVIOUS
  <2>1. i + 1 \in 1 .. Len(backlog) /\ j + 1 \in 1 .. Len(backlog)
    BY <1>6
  <2>2. i + 1 = j + 1
    BY <1>6, <1>7, <2>1
  <2> QED
    BY <1>6, <2>2
<1>9. \A s : Contains(backlog, s) <=> s = serving' \/ Contains(backlog', s)
  <2> TAKE s
  <2>1. ASSUME NEW i \in 1 .. Len(backlog), backlog[i] = s
        PROVE  s = serving' \/ Contains(backlog', s)
    <3>1. CASE i = 1
      BY <1>6, <2>1, <3>1
    <3>2. CASE i # 1
      <4>1. i - 1 \in 1 .. Len(backlog') /\ (i - 1) + 1 = i
        BY <1>6, <3>2
      <4>2. backlog'[i - 1] = s
        BY <1>6, <2>1, <4>1
      <4> QED
        BY <4>1, <4>2 DEF Contains
    <3> QED
      BY <3>1, <3>2
  <2>2. ASSUME NEW i \in 1 .. Len(backlog'), backlog'[i] = s
        PROVE  Contains(backlog, s)
    <3>1. i + 1 \in 1 .. Len(backlog) /\ backlog[i + 1] = s
      BY <1>6, <2>2
    <3> QED
      BY <3>1 DEF Contains
  <2>3. 1 \in 1 .. Len(backlog)
    BY <1>6
  <2> QED
    BY <1>6, <2>1, <2>2, <2>3 DEF Contains
<1>10. ~Contains(backlog', serving')
  <2> SUFFICES ASSUME NEW i \in 1 .. Len(backlog'), backlog'[i] = serving'
               PROVE  FALSE
    BY DEF Contains
  <2>1. i + 1 \in 1 .. Len(backlog) /\ 1 \in 1 .. Len(backlog) /\ i + 1 # 1
    BY <1>6
  <2> QED
    BY <1>6, <1>7, <2>1
<1>11. Contains(backlog, serving')
  BY <1>9
<1>12. BacklogOK'
  <2>1. \A s \in Sessions : connection'[s] = "open" <=> s = serving' \/ Contains(backlog', s)
    BY <1>1, <1>2, <1>9, MeasurementAssumption DEF BacklogOK
  <2>2. \A s \in Sessions : Contains(backlog', s) => s # serving' /\ out'[s] = << >>
    BY <1>1, <1>9, <1>10 DEF BacklogOK
  <2> QED
    BY <1>6, <1>8, <2>1, <2>2 DEF BacklogOK
<1>13. out'[serving'] = << >>
  BY <1>1, <1>6, <1>11 DEF BacklogOK
<1>14. ServerOK'
  BY <1>1, <1>2, <1>6, <1>13 DEF ServerOK
<1> QED
  BY <1>3, <1>5, <1>12, <1>14

(* A client that is gone before the server has read its request never      *)
(* completes it.                                                           *)
LEMMA GoneIsAbandoned ==
  ASSUME IInv, NEW s \in Sessions, s = serving, server = "reading",
         ~RequestRead(s), ClientGone(s)
  PROVE  Abandoned(s) /\ pc[s[1]] = "stopped"
<1> USE DEF IInv
<1>1. /\ s[1] \in Clients /\ s[2] \in 1 .. Transmissions /\ s = <<s[1], s[2]>>
      /\ ClientOK(s[1]) /\ round[s[1]] \in 1 .. Transmissions
  BY SessionsFacts DEF ClientsOK
<1>2. connection[s] # "none" /\ SessionOK(s) /\ in[s] \in Seq(Pieces)
  BY DEF BacklogOK, SessionsOK
<1>3. in[s] # Message(s)
  BY <1>2, RequestReadMeans DEF SessionOK
<1>4. ~Done(s[1], s[2]) /\ ~(s[2] > round[s[1]])
  BY <1>1, <1>2, <1>3 DEF ClientOK
<1>5. s[2] = round[s[1]] /\ pc[s[1]] # "correct"
  BY <1>1, <1>4 DEF Done
<1>6. s = Session(s[1])
  BY <1>1, <1>5 DEF Session
<1>7. pc[s[1]] # "failed"
  BY <1>1 DEF ClientOK, ServerGone
<1> QED
  BY <1>3, <1>5, <1>6, <1>7 DEF ClientGone, Abandoned

LEMMA ProcessStep ==
  ASSUME IInv, \/ Process
               \/ /\ ProcessShort
                  /\ server' = "answering"
                  /\ UNCHANGED <<protocol, clientVars, serving, response, out, connection, backlog>>
  PROVE  IInv'
<1> USE DEF IInv
<1>1. /\ server = "reading" /\ server' = "answering"
      /\ UNCHANGED <<protocol, clientVars, serving, out, connection, backlog>>
      /\ \/ RequestRead(serving) /\ response' = Response(serving)
         \/ ~RequestRead(serving) /\ ClientGone(serving) /\ response' = response
  BY DEF Process, ProcessShort
<1>2. ~ServerGone /\ ~ServerGone' /\ response = << >> /\ out[serving] = << >>
  BY <1>1 DEF ServerOK, ServerGone
<1>3. /\ ClientsOK'
      /\ \A s \in Sessions : /\ Message(s)' = Message(s) /\ Answer(s)' = Answer(s)
                             /\ Asked(s) <=> Asked(s)'
                             /\ Abandoned(s) => Abandoned(s)'
  BY <1>1, <1>2, ServerFrame
<1>4. request' = request /\ in' = in /\ pc' = pc /\ round' = round
  BY <1>1 DEF clientVars
<1>5. SessionsOK'
  <2>1. \A s \in Sessions : SessionOK(s)'
    BY <1>1, <1>2, <1>3, <1>4, SameSession DEF SessionsOK
  <2> QED
    BY <1>1, <1>4, <2>1 DEF SessionsOK
<1>6. BacklogOK'
  BY <1>1 DEF BacklogOK
<1>7. PICK s \in Sessions : s = serving
  BY <1>1 DEF ServerOK
<1>8. connection[s] # "none" /\ SessionOK(s) /\ in[s] \in Seq(Pieces) /\ Asked(s)
  BY <1>7 DEF BacklogOK, SessionsOK, SessionOK
<1>9. CASE RequestRead(s)
  <2>1. in[s] = Message(s)
    BY <1>8, <1>9, RequestReadMeans DEF SessionOK
  <2>2. response' = Answer(s) /\ Answer(s) \in Seq(AnswerPieces)
    BY <1>1, <1>7, <1>8, <1>9, <2>1, ResponseIsAnswer, AnswerFacts
  <2>3. serving' = s /\ out'[s] = << >> /\ Answer(serving)' = Answer(s) /\ Len(Answer(s)) \in Nat
    <3>1. serving' = s /\ out'[s] = << >>
      BY <1>1, <1>2, <1>7
    <3>2. Answer(serving)' = Answer(s)'
      BY <3>1 DEF Answer
    <3> QED
      BY <1>3, <2>2, <3>1, <3>2
  <2>4. Len(<< >>) = 0
    OBVIOUS
  <2>5. RestOf(serving)'
    <3>1. \A i \in 1 .. Len(Answer(s)) : 0 + i = i
      BY <2>3
    <3> QED
      BY <2>2, <2>3, <2>4, <3>1 DEF RestOf
  <2> QED
    BY <1>1, <1>2, <1>3, <1>5, <1>6, <1>7, <2>2, <2>3, <2>5 DEF ServerOK
<1>10. CASE ~RequestRead(s)
  <2>1. Abandoned(s)
    BY <1>1, <1>7, <1>10, GoneIsAbandoned
  <2>2. Abandoned(s)' /\ serving' = s
    BY <1>1, <1>3, <1>7, <2>1
  <2>3. Abandoned(serving)'
    BY <2>2 DEF Abandoned, Message
  <2>4. response' = << >>
    BY <1>1, <1>2, <1>7, <1>10
  <2> QED
    BY <1>1, <1>2, <1>3, <1>5, <1>6, <1>7, <2>2, <2>3, <2>4 DEF ServerOK
<1> QED
  BY <1>9, <1>10

LEMMA SendStep ==
  ASSUME IInv, Send
  PROVE  IInv'
<1> USE DEF IInv
<1>1. PICK s \in Sessions : s = serving
  BY DEF Send, ServerOK
<1>2. /\ server = "answering" /\ response # << >>
      /\ out' = [out EXCEPT ![s] = Append(@, Head(response))]
      /\ response' = Tail(response)
      /\ UNCHANGED <<protocol, clientVars, server, serving, connection, backlog>>
  BY <1>1 DEF Send
<1>3. ~ServerGone /\ ~ServerGone' /\ RestOf(s)
  BY <1>1, <1>2 DEF ServerOK, ServerGone, RestOf, Answer
<1>4. /\ connection[s] = "open" /\ SessionOK(s) /\ Asked(s)
      /\ out[s] \in Seq(AnswerPieces) /\ PartOf(out[s], Answer(s))
  BY <1>1 DEF BacklogOK, SessionsOK, SessionOK
<1>5. /\ response \in Seq(AnswerPieces) /\ Len(response) \in Nat /\ Len(response) # 0
      /\ Len(out[s]) \in Nat /\ Answer(s) \in Seq(AnswerPieces)
      /\ Head(response) = response[1] /\ response[1] \in AnswerPieces
  BY <1>2, <1>4, AnswerFacts DEF ServerOK
<1>6. out[s] # Answer(s)
  BY <1>3, <1>5 DEF RestOf
<1> DEFINE more == Append(out[s], response[1])
<1>7. /\ more \in Seq(AnswerPieces) /\ Len(more) = Len(out[s]) + 1
      /\ \A i \in 1 .. Len(out[s]) + 1 :
           more[i] = IF i = Len(out[s]) + 1 THEN response[1] ELSE out[s][i]
  BY <1>4, <1>5, ContainsAppend
<1>8. response[1] = Answer(s)[Len(out[s]) + 1]
  BY <1>3, <1>5 DEF RestOf
<1>9. PartOf(more, Answer(s))
  <2>1. \A i \in 1 .. Len(out[s]) + 1 : more[i] = Answer(s)[i]
    BY <1>4, <1>5, <1>7, <1>8 DEF PartOf
  <2>2. Len(more) <= Len(Answer(s))
    BY <1>3, <1>5, <1>7 DEF RestOf
  <2> QED
    BY <1>7, <2>1, <2>2 DEF PartOf
<1> HIDE DEF more
<1>10. /\ out' \in [Sessions -> Seq(AnswerPieces)] /\ out'[s] = more
       /\ \A x \in Sessions : x # s => out'[x] = out[x]
  BY <1>2, <1>5, <1>7 DEF SessionsOK, more
<1>11. /\ ClientsOK'
       /\ \A x \in Sessions : /\ Message(x)' = Message(x) /\ Answer(x)' = Answer(x)
                              /\ Asked(x) <=> Asked(x)'
                              /\ Abandoned(x) => Abandoned(x)'
  BY <1>2, <1>3, <1>6, <1>10, ServerFrame
<1>12. request' = request /\ in' = in /\ pc' = pc /\ round' = round
  BY <1>2 DEF clientVars
<1>13. SessionOK(s)'
  BY <1>2, <1>4, <1>9, <1>10, <1>11, <1>12 DEF SessionOK
<1>14. \A x \in Sessions : x # s => SessionOK(x)'
  BY <1>2, <1>3, <1>10, <1>11, <1>12, SameSession DEF SessionsOK
<1>15. SessionsOK'
  BY <1>2, <1>10, <1>12, <1>13, <1>14 DEF SessionsOK
<1>16. BacklogOK'
  BY <1>1, <1>2, <1>10 DEF BacklogOK
<1>17. /\ response' \in Seq(AnswerPieces) /\ Len(response') = Len(response) - 1
       /\ \A i \in 1 .. Len(response') : response'[i] = response[i + 1]
  BY <1>2, <1>5
<1>18. RestOf(s)'
  <2>1. Len(out'[s]) = Len(out[s]) + 1 /\ Answer(s)' = Answer(s)
    BY <1>7, <1>10, <1>11
  <2>2. Len(out'[s]) + Len(response') = Len(Answer(s)')
    <3>1. Len(out[s]) + Len(response) = Len(Answer(s))
      BY <1>3 DEF RestOf
    <3>2. Len(response') = Len(response) - 1
      BY <1>17
    <3>3. Len(out[s]) \in Nat /\ Len(response) \in Nat
      BY <1>5
    <3> QED
      BY <2>1, <3>1, <3>2, <3>3
  <2>3. ASSUME NEW i \in 1 .. Len(response')
        PROVE  response'[i] = Answer(s)'[Len(out'[s]) + i]
    <3>1. i + 1 \in 1 .. Len(response)
      BY <1>5, <1>17
    <3>2. response[i + 1] = Answer(s)[Len(out[s]) + (i + 1)]
      BY <1>3, <3>1 DEF RestOf
    <3>3. Len(out[s]) + (i + 1) = Len(out'[s]) + i
      <4>1. i \in Int /\ Len(out[s]) \in Int
        BY <1>5
      <4>2. \A a, j \in Int : a + (j + 1) = (a + 1) + j
        OBVIOUS
      <4>3. Len(out[s]) + (i + 1) = (Len(out[s]) + 1) + i
        BY <4>1, <4>2
      <4> QED
        BY <2>1, <4>3, Zenon
    <3> QED
      BY <1>11, <1>17, <3>2, <3>3
  <2> QED
    BY <2>2, <2>3 DEF RestOf
<1>19. RestOf(serving)'
  BY <1>1, <1>2, <1>18 DEF RestOf, Answer
<1>20. ServerOK'
  BY <1>1, <1>2, <1>3, <1>17, <1>19 DEF ServerOK
<1> QED
  BY <1>11, <1>15, <1>16, <1>20

LEMMA CloseStreamStep ==
  ASSUME IInv, CloseStream
  PROVE  IInv'
<1> USE DEF IInv
<1>1. PICK s \in Sessions : s = serving
  BY DEF CloseStream, ServerOK
<1>2. /\ server = "answering" /\ response = << >> /\ server' = "waiting"
      /\ connection' = [connection EXCEPT ![s] = "closed"] /\ serving' = NoSession
      /\ UNCHANGED <<protocol, clientVars, response, out, backlog>>
  BY <1>1 DEF CloseStream
<1>3. ~ServerGone /\ ~ServerGone' /\ (RestOf(s) \/ Abandoned(s))
  BY <1>1, <1>2 DEF ServerOK, ServerGone, RestOf, Answer
<1>4. /\ connection[s] = "open" /\ SessionOK(s) /\ Asked(s) /\ ~Contains(backlog, s)
      /\ out[s] \in Seq(AnswerPieces) /\ PartOf(out[s], Answer(s))
  BY <1>1 DEF BacklogOK, SessionsOK, SessionOK
<1>5. out[s] = Answer(s) \/ Abandoned(s)
  <2>1. Answer(s) \in Seq(AnswerPieces) /\ Len(out[s]) \in Nat /\ Len(Answer(s)) \in Nat
    BY <1>4, AnswerFacts
  <2>2. RestOf(s) => Len(out[s]) = Len(Answer(s))
    BY <1>2, <2>1 DEF RestOf
  <2> QED
    BY <1>3, <1>4, <2>1, <2>2, WholePart
<1>6. /\ connection' \in [Sessions -> {"none", "open", "closed", "cut"}]
      /\ connection'[s] = "closed"
      /\ \A x \in Sessions : x # s => connection'[x] = connection[x]
  BY <1>2 DEF SessionsOK
<1>7. /\ ClientsOK'
      /\ \A x \in Sessions : /\ Message(x)' = Message(x) /\ Answer(x)' = Answer(x)
                             /\ Asked(x) <=> Asked(x)'
                             /\ Abandoned(x) => Abandoned(x)'
  BY <1>2, <1>3, <1>4, <1>6, ServerFrame
<1>8. request' = request /\ in' = in /\ pc' = pc /\ round' = round
  BY <1>2 DEF clientVars
<1>9. SessionOK(s)'
  BY <1>2, <1>4, <1>5, <1>6, <1>7, <1>8 DEF SessionOK
<1>10. \A x \in Sessions : x # s => SessionOK(x)'
  BY <1>2, <1>3, <1>6, <1>7, <1>8, SameSession DEF SessionsOK
<1>11. SessionsOK'
  BY <1>2, <1>6, <1>8, <1>9, <1>10 DEF SessionsOK
<1>12. BacklogOK'
  <2>1. \A x \in Sessions : connection'[x] = "open" <=> x = serving' \/ Contains(backlog', x)
    BY <1>1, <1>2, <1>4, <1>6, MeasurementAssumption DEF BacklogOK
  <2>2. \A x \in Sessions : Contains(backlog', x) => x # serving' /\ out'[x] = << >>
    BY <1>2, MeasurementAssumption DEF BacklogOK
  <2> QED
    BY <1>2, <2>1, <2>2 DEF BacklogOK
<1>13. ServerOK'
  BY <1>2, <1>3 DEF ServerOK
<1> QED
  BY <1>7, <1>11, <1>12, <1>13

(* The end of the server, by itself or by a signal.                        *)
LEMMA GoneStep ==
  ASSUME IInv, ~ServerGone, NEW end \in {"ended", "killed"}, GoneWith(end),
         end = "ended" =>
           /\ protocol # "JSON"
           /\ \E c \in Clients : pc[c] = "stopped" /\ in[Session(c)] # Message(Session(c))
  PROVE  IInv'
<1> USE DEF IInv
<1>1. /\ server' = end /\ serving' = NoSession /\ response' = << >> /\ backlog' = << >>
      /\ connection' = [s \in Sessions |-> IF connection[s] = "open" THEN "cut" ELSE connection[s]]
      /\ UNCHANGED <<protocol, clientVars, out>>
  BY DEF GoneWith
<1>2. ServerGone'
  BY <1>1 DEF ServerGone
<1>3. \A s \in Sessions : connection'[s] = IF connection[s] = "open" THEN "cut" ELSE connection[s]
  BY <1>1
<1>4. /\ ClientsOK'
      /\ \A x \in Sessions : /\ Message(x)' = Message(x) /\ Answer(x)' = Answer(x)
                             /\ Asked(x) <=> Asked(x)'
                             /\ Abandoned(x) => Abandoned(x)'
  BY <1>1, <1>2, <1>3, ServerFrame
<1>5. request' = request /\ in' = in /\ pc' = pc /\ round' = round
  BY <1>1 DEF clientVars
<1>6. \A s \in Sessions : SessionOK(s)'
  BY <1>1, <1>2, <1>3, <1>4, <1>5 DEF SessionsOK, SessionOK
<1>7. connection' \in [Sessions -> {"none", "open", "closed", "cut"}]
  BY <1>1 DEF SessionsOK
<1>8. SessionsOK'
  BY <1>1, <1>5, <1>6, <1>7 DEF SessionsOK
<1>9. BacklogOK'
  <2>1. \A s \in Sessions : ~Contains(backlog', s) /\ s # serving' /\ connection'[s] # "open"
    BY <1>1, <1>3, MeasurementAssumption DEF Contains
  <2> QED
    BY <1>1, <2>1 DEF BacklogOK
<1>10. ServerOK'
  <2>1. server' = "ended" =>
          \E c \in Clients : pc'[c] = "stopped" /\ in'[Session(c)'] # Message(Session(c))'
    <3> SUFFICES ASSUME end = "ended"
                 PROVE  \E c \in Clients :
                          pc'[c] = "stopped" /\ in'[Session(c)'] # Message(Session(c))'
      BY <1>1
    <3>1. PICK c \in Clients : pc[c] = "stopped" /\ in[Session(c)] # Message(Session(c))
      OBVIOUS
    <3>2. Session(c)' = Session(c) /\ Message(Session(c))' = Message(Session(c))
      BY <1>1, <1>5 DEF Session, Message
    <3> QED
      BY <1>5, <3>1, <3>2
  <2>2. << >> \in Seq(AnswerPieces)
    OBVIOUS
  <2> QED
    BY <1>1, <2>1, <2>2 DEF ServerOK
<1> QED
  BY <1>4, <1>8, <1>9, <1>10
------------------------------------------------------------------------------
LEMMA ProcessShortStep ==
  ASSUME IInv, ProcessShort
  PROVE  IInv'
<1> USE DEF IInv
<1>1. PICK s \in Sessions : s = serving
  BY DEF ProcessShort, ServerOK
<1>2. server = "reading" /\ ~RequestRead(s) /\ ClientGone(s)
  BY <1>1 DEF ProcessShort
<1>3. CASE /\ server' = "answering"
           /\ UNCHANGED <<protocol, clientVars, serving, response, out, connection, backlog>>
  BY <1>3, ProcessStep
<1>4. CASE protocol # "JSON" /\ GoneWith("ended")
  <2>1. Abandoned(s) /\ pc[s[1]] = "stopped"
    BY <1>1, <1>2, GoneIsAbandoned
  <2>2. s[1] \in Clients /\ in[Session(s[1])] # Message(Session(s[1]))
    BY <2>1, SessionsFacts DEF Abandoned
  <2>3. ~ServerGone
    BY <1>2 DEF ServerGone
  <2> QED
    BY <1>4, <2>1, <2>2, <2>3, GoneStep
<1> QED
  BY <1>3, <1>4 DEF ProcessShort

LEMMA StepIInv == IInv /\ [Next]_vars => IInv'
<1> SUFFICES ASSUME IInv, [Next]_vars PROVE IInv'
  OBVIOUS
<1>1. ASSUME NEW c \in Clients, ClientStep(c) \/ Stop(c) PROVE IInv'
  BY <1>1, ConnectStep, WriteStep, FailStep, ReadAnswerStep DEF ClientStep
<1>2. CASE ServerStep
  BY <1>2, AcceptStep, ProcessStep, ProcessShortStep, SendStep, CloseStreamStep DEF ServerStep
<1>3. CASE Kill
  BY <1>3, GoneStep DEF Kill
<1>4. CASE UNCHANGED vars
  <2>1. /\ UNCHANGED <<protocol, pc, round, request, in, out>>
        /\ UNCHANGED <<connection, backlog, server, serving, response>>
    BY <1>4 DEF vars, clientVars, serverVars
  <2>2. /\ \A s \in Sessions : connection[s] = "none" <=> connection'[s] = "none"
        /\ clientVars' = clientVars /\ (ServerGone => ServerGone')
    BY <2>1 DEF clientVars, ServerGone
  <2>3. /\ ClientsOK'
        /\ \A s \in Sessions : /\ Message(s)' = Message(s) /\ Answer(s)' = Answer(s)
                               /\ Asked(s) <=> Asked(s)'
                               /\ Abandoned(s) => Abandoned(s)'
    BY <2>1, <2>2, ServerFrame
  <2>4. SessionsOK'
    <3>1. \A s \in Sessions : SessionOK(s)'
      BY <2>1, <2>2, <2>3, SameSession DEF IInv, SessionsOK
    <3> QED
      BY <2>1, <3>1 DEF IInv, SessionsOK
  <2>5. BacklogOK'
    BY <2>1 DEF IInv, BacklogOK
  <2>6. ServerOK'
    <3>1. \A s : /\ RestOf(s) => RestOf(s)'
                 /\ Abandoned(s) => Abandoned(s)'
      BY <2>1 DEF RestOf, Answer, Abandoned, Message, Session
    <3>2. \A c \in Clients : in[Session(c)] # Message(Session(c))
                           => in'[Session(c)'] # Message(Session(c))'
      BY <2>1 DEF Message, Session
    <3>3. ServerGone => backlog = << >>
      BY DEF IInv, ServerOK
    <3>4. (ServerGone => backlog = << >>)'
      BY <2>1, <3>3 DEF ServerGone
    <3>5. server = "answering" =>
            RestOf(serving) \/ (response = << >> /\ Abandoned(serving))
      BY DEF IInv, ServerOK
    <3>6. (server = "answering" =>
            RestOf(serving) \/ (response = << >> /\ Abandoned(serving)))'
      BY <2>1, <3>1, <3>5
    <3> QED
      BY <2>1, <3>2, <3>4, <3>6 DEF IInv, ServerOK
  <2> QED
    BY <2>3, <2>4, <2>5, <2>6 DEF IInv
<1> QED
  BY <1>1, <1>2, <1>3, <1>4 DEF Next

(* The inductive invariant holds always: both sides write parts of what    *)
(* they agreed on, and each connection is in one place.                    *)
THEOREM Invariance == Spec => []IInv
<1>1. IInv /\ [Next]_vars => IInv'
  BY StepIInv
<1> QED
  BY <1>1, InitIInv, PTL DEF Spec
------------------------------------------------------------------------------
LEMMA PartIsPrefix ==
  ASSUME NEW A, NEW p \in Seq(A), NEW q \in Seq(A), PartOf(p, q)
  PROVE  IsPrefix(p, q)
<1>1. /\ Len(p) \in Nat /\ Len(q) \in Nat /\ Len(p) <= Len(q)
      /\ \A i \in 1 .. Len(p) : p[i] = q[i] /\ p[i] \in A /\ q[i] \in A
  BY DEF PartOf
<1>2. /\ SubSeq(p, 1, Len(p)) \in Seq(A) /\ SubSeq(q, 1, Len(p)) \in Seq(A)
      /\ Len(SubSeq(p, 1, Len(p))) = Len(p) /\ Len(SubSeq(q, 1, Len(p))) = Len(p)
      /\ \A i \in 1 .. Len(p) : /\ SubSeq(p, 1, Len(p))[i] = p[i]
                                /\ SubSeq(q, 1, Len(p))[i] = q[i]
  BY <1>1
<1>3. SubSeq(p, 1, Len(p)) = SubSeq(q, 1, Len(p))
  BY <1>1, <1>2, SeqEqual
<1> QED
  BY <1>1, <1>3 DEF IsPrefix

(* A connection is in the backlog or being served, never both, and until   *)
(* then nothing is written to it; a client has written a prefix of its     *)
(* request.                                                                *)
THEOREM TypeCorrect == Spec => []TypeOK
<1>1. IInv => TypeOK
  <2> SUFFICES ASSUME IInv PROVE TypeOK
    OBVIOUS
  <2>1. ASSUME NEW s \in Sessions, connection[s] # "none"
        PROVE  IsPrefix(in[s], Message(s))
    <3>1. Asked(s) /\ PartOf(in[s], Message(s)) /\ in[s] \in Seq(Pieces)
      BY <2>1 DEF IInv, SessionsOK, SessionOK
    <3> QED
      BY <3>1, MessageFacts, PartIsPrefix
  <2>2. serving \in Sessions \union {NoSession}
    BY DEF IInv, ServerOK
  <2>3. \A s \in Sessions :
          /\ connection[s] \in {"none", "open", "closed", "cut"}
          /\ connection[s] = "open" <=> s = serving \/ Contains(backlog, s)
          /\ Contains(backlog, s) => s # serving /\ out[s] = << >>
    BY DEF IInv, SessionsOK, BacklogOK
  <2> QED
    BY <2>1, <2>2, <2>3 DEF IInv, ClientsOK, ServerOK, TypeOK
<1> QED
  BY <1>1, Invariance, PTL

(* "Data are correct." is said after whole answers only, also where        *)
(* Protobuf cannot tell one from the beginning of one.                     *)
THEOREM CorrectMeansCompleteHolds == Spec => []CorrectMeansComplete
<1>1. IInv => CorrectMeansComplete
  <2> SUFFICES ASSUME IInv, NEW c \in Clients, NEW k \in 1 .. Transmissions,
                      k < round[c] \/ pc[c] = "correct"
               PROVE  LET results == Results(<<c, k>>) IN
                      /\ [i \in DOMAIN results |-> results[i].id] = request[<<c, k>>]
                      /\ \A i \in DOMAIN results : \A t \in DataTypes :
                           results[i].averages[t] = <<results[i].id, t>>
    BY DEF CorrectMeansComplete
  <2>1. PICK s \in Sessions : s = <<c, k>>
    BY SessionsFacts
  <2>2. ClientOK(c) /\ round[c] \in 1 .. Transmissions /\ SessionOK(s)
    BY DEF IInv, ClientsOK, SessionsOK
  <2>3. Done(c, k)
    <3>1. pc[c] = "correct" => round[c] = Transmissions
      BY <2>2 DEF ClientOK
    <3> QED
      BY <3>1, MeasurementAssumption DEF Done
  <2>4. connection[s] # "none" /\ out[s] = Answer(s)
    BY <2>1, <2>2, <2>3 DEF ClientOK
  <2>5. Asked(s) /\ PartOf(out[s], Answer(s)) /\ out[s] \in Seq(AnswerPieces)
    BY <2>2, <2>4 DEF SessionOK, IInv, SessionsOK
  <2>6. PICK results : results = Results(s)
    OBVIOUS
  <2>7. /\ DOMAIN results = 1 .. N
        /\ \A i \in 1 .. N : results[i] = Result(s, request[s][i])
    BY <2>4, <2>5, <2>6, ResultsFacts
  <2>8. /\ request[s] \in Seq(Ids) /\ DOMAIN request[s] = 1 .. N
        /\ \A i \in 1 .. N : request[s][i] \in Ids
    BY <2>5, AskedFacts
  <2>9. \A i \in 1 .. N : /\ results[i].id = request[s][i]
                          /\ \A t \in DataTypes : results[i].averages[t] = <<request[s][i], t>>
    BY <2>7, <2>8, ResultFacts
  <2>10. request[s] = [i \in 1 .. N |-> request[s][i]]
    <3>1. request[s] \in [1 .. N -> Ids]
      BY <2>5 DEF Asked, SetToSeqs, N
    <3> QED
      BY <3>1
  <2>11. [i \in DOMAIN results |-> results[i].id] = request[s]
    BY <2>7, <2>9, <2>10
  <2>12. \A i \in DOMAIN results : \A t \in DataTypes :
           results[i].averages[t] = <<results[i].id, t>>
    BY <2>7, <2>9
  <2> QED
    BY <2>1, <2>6, <2>11, <2>12
<1> QED
  BY <1>1, Invariance, PTL

(* No client fails before the server has, and the server ends of itself    *)
(* only after a client was stopped in the middle of its request.           *)
THEOREM FailsOnlyWithTheServerHolds == Spec => []FailsOnlyWithTheServer
<1>1. IInv => FailsOnlyWithTheServer
  <2> SUFFICES ASSUME IInv PROVE FailsOnlyWithTheServer
    OBVIOUS
  <2>1. \A c \in Clients : pc[c] = "failed" => ServerGone
    BY DEF IInv, ClientsOK, ClientOK
  <2>2. ASSUME server = "ended"
        PROVE  /\ protocol # "JSON"
               /\ \E c \in Clients : pc[c] = "stopped" /\ ~RequestRead(Session(c))
    <3>1. PICK c \in Clients : pc[c] = "stopped" /\ in[Session(c)] # Message(Session(c))
      BY <2>2 DEF IInv, ServerOK
    <3>2. PICK s \in Sessions : s = Session(c)
      BY SessionType DEF IInv
    <3>3. connection[s] # "none"
      BY <3>1, <3>2 DEF IInv, ClientsOK, ClientOK
    <3>4. Asked(s) /\ PartOf(in[s], Message(s)) /\ in[s] \in Seq(Pieces)
      BY <3>3 DEF IInv, SessionsOK, SessionOK
    <3>5. ~RequestRead(s)
      BY <3>1, <3>2, <3>4, RequestReadMeans
    <3> QED
      BY <2>2, <3>1, <3>2, <3>5 DEF IInv, ServerOK
  <2> QED
    BY <2>1, <2>2 DEF FailsOnlyWithTheServer
<1> QED
  BY <1>1, Invariance, PTL
==============================================================================
