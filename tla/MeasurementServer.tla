------------------------- MODULE MeasurementServer -------------------------
(***************************************************************************)
(* 06_serialization: the measurement server (main.cpp) and the clients     *)
(* that test it (App, DataProducer, the three DataHandlers, ResultChecker).*)
(* The server serves one connection after the other; a client makes a new  *)
(* connection for every transmission.                                      *)
(*                                                                         *)
(* A request is a stream of pieces: in JSON its datasets and the byte that *)
(* ends it, in Avro and Protobuf its size and then the datasets.  An       *)
(* answer in JSON and Avro tells where it ends; one in Protobuf ends with  *)
(* the stream.  Of a dataset only its identity counts; the average of its  *)
(* values of a type is named by the dataset and the type.  Client and      *)
(* server are started with the same protocol.                              *)
(*                                                                         *)
(* A client may be stopped at any moment, and so may the server, which has *)
(* no other way to end but an exception.                                   *)
(***************************************************************************)
EXTENDS Integers, Sequences, SequencesExt

CONSTANTS
  Clients,
  Ids,           (* the datasets of a transmission                         *)
  Transmissions, (* how many a client makes                                *)
  End,           (* the end of a request, or of an answer                  *)
  NoSession

Sessions == Clients \X (1 .. Transmissions)
DataTypes == {"DOWNLOAD", "UPLOAD", "PING"}
AllResults ==
  [id : Ids, info : Sessions \X Ids, averages : [DataTypes -> Ids \X DataTypes]]

ASSUME MeasurementAssumption ==
  /\ IsFiniteSet(Ids) /\ Ids # {}
  /\ Transmissions \in Nat \ {0}
  /\ End \notin Ids /\ Ids \intersect Nat = {} /\ End \notin Nat
  /\ End \notin AllResults /\ NoSession \notin Sessions

VARIABLES
  protocol,
  pc, round,     (* where a client is, and in which transmission           *)
  request,       (* the datasets of a session in the order they are sent   *)
  in, out,       (* what client and server have written to the connection  *)
  connection,    (* "none", "open", or how the server left it: "closed" at *)
                 (* the end of an iteration or "cut" by its own end        *)
  backlog,       (* the connections waiting for accept()                   *)
  server,        (* where the server is                                    *)
  serving,       (* the session of the connection it accepted              *)
  response       (* what it has yet to write there                         *)

clientVars == <<pc, round, request, in>>
serverVars == <<server, serving, response, out>>
vars == <<protocol, clientVars, serverVars, connection, backlog>>

Protocols == {"JSON", "AVRO", "PROTO"}
Session(c) == <<c, round[c]>>

Init ==
  /\ protocol \in Protocols
  /\ pc = [c \in Clients |-> "connecting"]
  /\ round = [c \in Clients |-> 1]
  /\ request = [s \in Sessions |-> << >>]
  /\ in = [s \in Sessions |-> << >>]
  /\ out = [s \in Sessions |-> << >>]
  /\ connection = [s \in Sessions |-> "none"]
  /\ backlog = << >>
  /\ server = "waiting"
  /\ serving = NoSession
  /\ response = << >>

ServerGone == server \in {"ended", "killed"}
------------------------------------------------------------------------------
(* The three getResults(): what is written, when the answer has been read. *)
NoEndByte(s) ==               \* mutant: the byte that ends the JSON is missing
  IF protocol = "JSON" THEN request[s] ELSE <<Len(request[s])>> \o request[s]

Message(s) ==
  IF protocol = "JSON" THEN Append(request[s], End)
                       ELSE <<Len(request[s])>> \o request[s]

AnswerRead(s) ==
  IF protocol = "PROTO" THEN connection[s] # "open" ELSE Contains(out[s], End)

(* The results that the client finds in what it has read.                  *)
Results(s) == IF Contains(out[s], End) THEN Front(out[s]) ELSE out[s]

MissingAllowed(s) ==          \* mutant: datasets without an answer are not missed
  LET results == Results(s) IN
  \A i \in DOMAIN results : results[i].info = <<s, results[i].id>>

(* ResultChecker: a dataset is taken out when its result comes, and so is  *)
(* a type of its records; in the end nothing may be left.                  *)
Checked(s) ==
  LET results == Results(s) IN
  /\ \A i \in DOMAIN results :
       /\ results[i].info = <<s, results[i].id>>
       /\ \A t \in DataTypes : results[i].averages[t] = <<results[i].id, t>>
       /\ \A j \in DOMAIN results : results[j].id = results[i].id => j = i
  /\ {results[i].id : i \in DOMAIN results} = ToSet(request[s])

(* new Socket() and generateData(): random ids, in JSON in the order of a  *)
(* HashMap.                                                                *)
Connect(c) ==
  /\ pc[c] = "connecting"
  /\ ~ServerGone
  /\ \E ids \in SetToSeqs(Ids) : request' = [request EXCEPT ![Session(c)] = ids]
  /\ connection' = [connection EXCEPT ![Session(c)] = "open"]
  /\ backlog' = Append(backlog, Session(c))
  /\ pc' = [pc EXCEPT ![c] = "writing"]
  /\ UNCHANGED <<protocol, round, in, serverVars>>

Write(c) ==
  LET s == Session(c)
      sent == Append(in[s], Message(s)[Len(in[s]) + 1])
  IN  /\ pc[c] = "writing"
      /\ in' = [in EXCEPT ![s] = sent]
      /\ pc' = [pc EXCEPT ![c] = IF sent = Message(s) THEN "waiting" ELSE "writing"]
      /\ UNCHANGED <<protocol, round, request, serverVars, connection, backlog>>

(* The connection is refused or reset, or the answer breaks off: an        *)
(* exception leaves App.run().  What Protobuf has read so far it may take  *)
(* for the answer, if it breaks off between two results.                   *)
Fail(c) ==
  /\ \/ pc[c] = "connecting" /\ ServerGone
     \/ pc[c] = "writing" /\ connection[Session(c)] = "cut"
     \/ /\ pc[c] = "waiting"
        /\ connection[Session(c)] = "cut"
        /\ protocol = "PROTO" \/ ~AnswerRead(Session(c))
  /\ pc' = [pc EXCEPT ![c] = "failed"]
  /\ UNCHANGED <<protocol, round, request, in, serverVars, connection, backlog>>

ReadAnswer(c) ==
  /\ pc[c] = "waiting"
  /\ AnswerRead(Session(c))
  /\ IF ~Checked(Session(c))
     THEN pc' = [pc EXCEPT ![c] = "failed"] /\ UNCHANGED round
     ELSE IF round[c] = Transmissions
     THEN pc' = [pc EXCEPT ![c] = "correct"] /\ UNCHANGED round
     ELSE pc' = [pc EXCEPT ![c] = "connecting"] /\ round' = [round EXCEPT ![c] = @ + 1]
  /\ UNCHANGED <<protocol, request, in, serverVars, connection, backlog>>

Stop(c) ==
  /\ pc[c] \in {"writing", "waiting"}
  /\ pc' = [pc EXCEPT ![c] = "stopped"]
  /\ UNCHANGED <<protocol, round, request, in, serverVars, connection, backlog>>
------------------------------------------------------------------------------
(* getline() up to the end byte, or read() of the size and as many bytes.  *)
RequestRead(s) ==
  IF protocol = "JSON" THEN Contains(in[s], End)
  ELSE in[s] # << >> /\ Len(in[s]) - 1 >= in[s][1]

(* read() returns early when the client has closed its side.               *)
ClientGone(s) ==
  s # Session(s[1]) \/ pc[s[1]] \in {"correct", "failed", "stopped"}

SwappedAverages(id) ==        \* mutant: two averages change places
  [DOWNLOAD |-> <<id, "UPLOAD">>, UPLOAD |-> <<id, "DOWNLOAD">>, PING |-> <<id, "PING">>]

Averages(id) ==
  [DOWNLOAD |-> <<id, "DOWNLOAD">>, UPLOAD |-> <<id, "UPLOAD">>, PING |-> <<id, "PING">>]

(* What lies before the end byte, or behind the size.                      *)
Datasets(s) ==
  IF protocol = "JSON" THEN Front(in[s]) ELSE SubSeq(in[s], 2, in[s][1] + 1)

(* The info of a dataset is copied to its result.                          *)
Result(s, id) == [id |-> id, info |-> <<s, id>>, averages |-> Averages(id)]

(* The results in the order of the datasets.                               *)
Response(s) ==
  LET results == [i \in DOMAIN Datasets(s) |-> Result(s, Datasets(s)[i])]
  IN  IF protocol = "PROTO" THEN results ELSE Append(results, End)

AcceptAgain ==                \* mutant: the connection stays in the backlog
  /\ server = "waiting"
  /\ backlog # << >>
  /\ serving' = Head(backlog)
  /\ server' = "reading"
  /\ UNCHANGED <<protocol, clientVars, response, out, connection, backlog>>

Accept ==
  /\ server = "waiting"
  /\ backlog # << >>
  /\ serving' = Head(backlog)
  /\ backlog' = Tail(backlog)
  /\ server' = "reading"
  /\ UNCHANGED <<protocol, clientVars, response, out, connection>>

Process ==
  /\ server = "reading"
  /\ RequestRead(serving)
  /\ response' = Response(serving)
  /\ server' = "answering"
  /\ UNCHANGED <<protocol, clientVars, serving, out, connection, backlog>>

GoneWith(end) ==
  /\ server' = end
  /\ connection' = [s \in Sessions |-> IF connection[s] = "open" THEN "cut" ELSE connection[s]]
  /\ serving' = NoSession
  /\ response' = << >>
  /\ backlog' = << >>
  /\ UNCHANGED <<protocol, clientVars, out>>

(* A request that breaks off: of JSON the parser keeps what it understood. *)
(* The others decode a buffer whose rest was never written, or one of a    *)
(* size that was never read: whatever comes out goes to a client that has  *)
(* gone, or an exception leaves the loop and main() returns.               *)
ProcessShort ==
  /\ server = "reading"
  /\ ~RequestRead(serving) /\ ClientGone(serving)
  /\ \/ /\ server' = "answering"
        /\ UNCHANGED <<protocol, clientVars, serving, response, out, connection, backlog>>
     \/ protocol # "JSON" /\ GoneWith("ended")

Send ==
  /\ server = "answering"
  /\ response # << >>
  /\ out' = [out EXCEPT ![serving] = Append(@, Head(response))]
  /\ response' = Tail(response)
  /\ UNCHANGED <<protocol, clientVars, server, serving, connection, backlog>>

KeepStream ==                 \* mutant: the stream outlives its iteration
  /\ server = "answering"
  /\ response = << >>
  /\ server' = "waiting"
  /\ serving' = NoSession
  /\ UNCHANGED <<protocol, clientVars, response, out, connection, backlog>>

(* The end of an iteration: the stream is destroyed.                       *)
CloseStream ==
  /\ server = "answering"
  /\ response = << >>
  /\ connection' = [connection EXCEPT ![serving] = "closed"]
  /\ server' = "waiting"
  /\ serving' = NoSession
  /\ UNCHANGED <<protocol, clientVars, response, out, backlog>>

Kill == ~ServerGone /\ GoneWith("killed")

ClientStep(c) == Connect(c) \/ Write(c) \/ Fail(c) \/ ReadAnswer(c)
ServerStep == Accept \/ Process \/ ProcessShort \/ Send \/ CloseStream

Next ==
  \/ \E c \in Clients : ClientStep(c) \/ Stop(c)
  \/ ServerStep
  \/ Kill

(* Both programs run on unless they are stopped.                           *)
Spec ==
  /\ Init /\ [][Next]_vars
  /\ WF_vars(ServerStep)
  /\ \A c \in Clients : WF_vars(ClientStep(c))
------------------------------------------------------------------------------
(* A connection is in the backlog or being served, never both, and until   *)
(* then nothing is written to it.                                          *)
TypeOK ==
  /\ protocol \in Protocols
  /\ pc \in [Clients -> {"connecting", "writing", "waiting", "correct", "failed", "stopped"}]
  /\ round \in [Clients -> 1 .. Transmissions]
  /\ server \in {"waiting", "reading", "answering", "ended", "killed"}
  /\ serving \in Sessions \union {NoSession}
  /\ \A s \in Sessions :
       /\ connection[s] \in {"none", "open", "closed", "cut"}
       /\ IsPrefix(in[s], Message(s)) \/ connection[s] = "none"
       /\ connection[s] = "open" <=> s = serving \/ Contains(backlog, s)
       /\ Contains(backlog, s) => s # serving /\ out[s] = << >>

(* "Data are correct." is only said when every dataset of every            *)
(* transmission was answered once, with all its averages: not after a part *)
(* of an answer that Protobuf takes for a whole one, when the server was   *)
(* stopped while it wrote.                                                 *)
CorrectMeansComplete ==
  \A c \in Clients : \A k \in 1 .. Transmissions :
    k < round[c] \/ pc[c] = "correct" =>
      LET results == Results(<<c, k>>) IN
      /\ [i \in DOMAIN results |-> results[i].id] = request[<<c, k>>]
      /\ \A i \in DOMAIN results : \A t \in DataTypes :
           results[i].averages[t] = <<results[i].id, t>>

(* No client fails while the server runs, whatever the others do and in    *)
(* whichever order the datasets come, and the server ends of itself only   *)
(* after a client was stopped in the middle of a request that is not JSON. *)
FailsOnlyWithTheServer ==
  /\ \A c \in Clients : pc[c] = "failed" => ServerGone
  /\ server = "ended" =>
       /\ protocol # "JSON"
       /\ \E c \in Clients : pc[c] = "stopped" /\ ~RequestRead(Session(c))

(* Every client comes to its end although the server serves one at a time  *)
(* and waits for clients that are slow or stop: neither waits for bytes    *)
(* that the other believes it has sent.                                    *)
EveryClientEnds ==
  \A c \in Clients : <>(pc[c] \in {"correct", "failed", "stopped"})
=============================================================================
