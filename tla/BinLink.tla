------------------------------- MODULE BinLink -------------------------------
(***************************************************************************)
(* The binary protocol: the loop of the robot that reads requests and      *)
(* answers them (homebrewos experimental_bin_mode.c, entered from          *)
(* idle_mode.c), and the client on the PC (HomeBrewLib binxfer.cs,         *)
(* Robos.cs), over a serial line that may lose a byte.                     *)
(*                                                                         *)
(* A request is the bytes of the code, so that a byte read in the wrong    *)
(* place means what it would mean to the robot.  'v' stands for the        *)
(* requests of three bytes with an answer of fixed length (Q, D, A, I).    *)
(* The requests 'm' and 'H', which no client here sends, 'q', which is a   *)
(* longer 'X', and 'C' and 'S', which are answered by an error, are left   *)
(* out.                                                                    *)
(***************************************************************************)
EXTENDS Integers, Sequences, Bitwise

CONSTANTS
  Packets,        \* packets for one servo: header, command, data, check sum
  Sync,           \* a packet with positions for all: header, command, 1, position, check sum
  MAX_INP_BUF,    \* the data bytes of an 'x' request that are read: 40
  MaxCalls,       \* requests and connections of the client in one run
  MaxLost,        \* bytes lost on the line, either way, in one run
  gDistance       \* what the distance sensor measures

Byte == 0 .. 255
MAGIC_RESPONSE == 234
MAGIC_REQUEST == 205
VERSION == 18
\* The characters of the code.
b == 98    p == 112    v == 118    x == 120
X == 88    P == 80     y == 121    Y == 89

ASSUME BinLinkAssumption ==
  /\ Packets \subseteq [1 .. 4 -> Byte] /\ Sync \in [1 .. 5 -> Byte] /\ gDistance \in Byte
  /\ MAX_INP_BUF \in Nat \ {0} /\ MaxCalls \in Nat /\ MaxLost \in Nat

VARIABLES
  gNextMode,                  \* "idle", "bin" or another
  robot,                      \* where its program is
  mt, bsize, c, cs,           \* the request being read
  b1,                         \* the first byte of a servo's answer
  bus,                        \* the last five bytes sent to the servos
  reply,                      \* what a servo is about to answer
  UDR0,                       \* the receive buffer of the servo bus: two bytes and one more
  toRobot, toHost,            \* the serial line
  host,                       \* the client
  asked,                      \* the request it waits for
  need, answer,               \* recv_packet: the type read; what was returned
  calls, lost, fails,         \* history: requests, bytes lost, calls in vain since then
  acted,                      \* history: packets the servos have carried out for asked
  lostAnswer                  \* history: a byte of an answer was lost

line   == <<toRobot, toHost>>
device == <<gNextMode, robot, mt, bsize, c, cs, b1>>
servos == <<bus, reply, UDR0, acted>>
client == <<host, asked, need, answer, calls, fails>>
faults == <<lost, lostAnswer>>
vars   == <<device, servos, line, client, faults>>

Nothing == <<>>

\* The requests of the client (send_msg_basic, send_msg_raw, send_msg_raw_bin).  It
\* sends packets that are answered with 'X' and the others with 'x'.
XorOf(s) == LET from[i \in 0 .. Len(s)] == IF i = 0 THEN 0 ELSE from[i - 1] ^^ s[i]
            IN  from[Len(s)]
Check(s) == XorOf(s) % 128
basic(t) == <<MAGIC_REQUEST, t, Check(<<MAGIC_REQUEST, t>>)>>
raw(t, s) == <<MAGIC_REQUEST, t, Len(s)>> \o s \o <<Check(<<Len(s)>> \o s)>>

Requests == {basic(t) : t \in {v, P, y, Y}} \cup {raw(x, Sync)}
            \cup {raw(X, s) : s \in Packets}
PacketOf(request) == SubSeq(request, 4, Len(request) - 1)
IsRaw(request) == Len(request) > 3

Init ==
  /\ gNextMode = "idle" /\ robot = "idle"
  /\ mt = 0 /\ bsize = 0 /\ c = 0 /\ cs = 0 /\ b1 = 0
  /\ bus = <<0, 0, 0, 0, 0>> /\ reply = <<>> /\ UDR0 = <<>> /\ acted = 0
  /\ toRobot = <<>> /\ toHost = <<>>
  /\ host = "closed" /\ asked = Nothing /\ need = 0 /\ answer = Nothing
  /\ calls = 0 /\ lost = 0 /\ fails = 0 /\ lostAnswer = FALSE

-----------------------------------------------------------------------------
\* Mutants of the definitions below: a request whose length is not cut off; its packet
\* sent again once it is checked; the bytes of the servo's answer swapped.
AllData == c + 1 < bsize
SentAgain == acted' = acted + 1 /\ UNCHANGED <<bus, reply, UDR0>>
Swapped(d) == <<d, b1>>

-----------------------------------------------------------------------------
(***************************************************************************)
(* The robot.  It reads a byte by looping on uartGetByte.                  *)
(***************************************************************************)
Read(label) == robot = label /\ toRobot # <<>> /\ toRobot' = Tail(toRobot)
byte == Head(toRobot)

\* The main loop goes by gNextMode; b, p, s and c are commands of the idle mode.
Leaves == IF byte = b THEN "bin"
          ELSE IF byte \in {p, P, 115, 83, 99, 67} THEN "another" ELSE "idle"
Enter(mode) == IF mode = "bin" THEN "magic" ELSE mode

IdleByte ==
  /\ Read("idle")
  /\ gNextMode' = Leaves /\ robot' = Enter(gNextMode')
  /\ UNCHANGED <<mt, bsize, c, cs, b1, servos, toHost, client, faults>>

ReadMagic ==
  /\ Read("magic")
  /\ robot' = IF byte = MAGIC_REQUEST THEN "type" ELSE "magic"
  /\ UNCHANGED <<gNextMode, mt, bsize, c, cs, b1, servos, toHost, client, faults>>

ReadType ==
  /\ Read("type")
  /\ mt' = byte
  /\ robot' = IF byte \in {v, p} THEN "check"
              ELSE IF byte \in {P, y, Y} THEN "checkPsd"
              ELSE IF byte \in {x, X} THEN "length" ELSE "magic"
  /\ UNCHANGED <<gNextMode, bsize, c, cs, b1, servos, toHost, client, faults>>

\* SendResponse, and what ends a request: the parser starts over.
Responses(t, d) == <<MAGIC_RESPONSE, t>> \o d \o <<Check(<<t>> \o d)>>
StartOver == robot' = "magic" /\ mt' = 0 /\ bsize' = 0 /\ c' = 0 /\ cs' = 0 /\ b1' = 0

RequestCheck == Check(<<MAGIC_REQUEST, mt>>)

ReadCheck ==
  /\ Read("check")
  /\ toHost' = IF byte = RequestCheck /\ mt = v
               THEN toHost \o Responses(v, <<VERSION>>) ELSE toHost
  /\ StartOver
  /\ UNCHANGED <<gNextMode, servos, client, faults>>

\* bin_read_p returns 'P' for all three, and that is the type of the answer.
ReadCheckPsd ==
  /\ Read("checkPsd")
  /\ toHost' = IF byte = RequestCheck THEN toHost \o Responses(P, <<gDistance>>) ELSE toHost
  /\ StartOver
  /\ UNCHANGED <<gNextMode, servos, client, faults>>

\* bin_read_x: the length, then the data, each byte of which goes to the servos
\* at once, then the check sum.
ReadLength ==
  /\ Read("length")
  /\ bsize' = byte /\ cs' = byte /\ c' = 0
  /\ robot' = IF byte = 0 THEN "checkData" ELSE "data"
  /\ UNCHANGED <<gNextMode, mt, b1, servos, toHost, client, faults>>

MoreData == c + 1 < bsize /\ c + 1 < MAX_INP_BUF

\* A servo carries out a packet that is whole, and answers if it alone was meant.
ForOne(s) == s[1] = 255 /\ s[4] = Check(<<s[2], s[3]>>)
ForAll(s) == s[1] = 255 /\ s[2] % 32 = 31 /\ s[3] = 1 /\ s[5] = s[4] % 128
ServoAnswer(s) == <<s[3], s[2] % 32>>
Whole(s) == ForAll(s) \/ ForOne(Tail(s))

Send(d) ==
  /\ bus' = Tail(bus) \o <<d>>
  /\ reply' = IF ForOne(Tail(bus')) THEN ServoAnswer(Tail(bus')) ELSE reply
  /\ acted' = IF Whole(bus') THEN acted + 1 ELSE acted
  /\ UNCHANGED UDR0

ServoReplies ==
  /\ reply # <<>> /\ reply' = <<>>
  /\ UDR0' = LET all == UDR0 \o reply IN SubSeq(all, 1, IF Len(all) > 3 THEN 3 ELSE Len(all))
  /\ UNCHANGED <<bus, acted, device, line, client, faults>>

ReadData ==
  /\ Read("data")
  /\ Send(byte)
  /\ cs' = cs ^^ byte /\ c' = c + 1
  /\ robot' = IF MoreData THEN "data" ELSE "checkData"
  /\ UNCHANGED <<gNextMode, mt, bsize, b1, toHost, client, faults>>

\* (The loops that would send a stored packet now are commented out.)
SentBefore == UNCHANGED servos

ReadCheckData ==
  /\ Read("checkData")
  /\ IF byte = cs % 128 /\ mt = X
     THEN robot' = "b1" /\ UNCHANGED <<mt, bsize, c, cs, b1, toHost>>
     ELSE /\ StartOver
          /\ toHost' = IF byte = cs % 128 THEN toHost \o Responses(x, <<0, 0>>) ELSE toHost
  /\ SentBefore
  /\ UNCHANGED <<gNextMode, client, faults>>

(***************************************************************************)
(* sciRx0Ready, twice: a byte of the buffer, or after RX_T_OUT whatever    *)
(* reading the empty buffer gives.  A servo that is about to answer does   *)
(* so in time, unless that is the fault of this run.                       *)
(***************************************************************************)
SciRx0Ready(label, d) ==
  /\ robot = label
  /\ \/ UDR0 # <<>> /\ d = Head(UDR0) /\ UDR0' = Tail(UDR0) /\ UNCHANGED lost
     \/ UDR0 = <<>> /\ reply = <<>> /\ d \in {0, 255} /\ UNCHANGED <<UDR0, lost>>
     \/ UDR0 = <<>> /\ reply # <<>> /\ d \in {0, 255} /\ lost < MaxLost
        /\ lost' = lost + 1 /\ UNCHANGED UDR0
  /\ fails' = IF lost' > lost THEN 0 ELSE fails
  /\ UNCHANGED <<gNextMode, bus, reply, acted, toRobot, host, asked, need, answer, calls,
                 lostAnswer>>

FirstByte ==
  \E d \in Byte : /\ SciRx0Ready("b1", d)
                  /\ b1' = d /\ robot' = "b2"
                  /\ UNCHANGED <<mt, bsize, c, cs, toHost>>

Answer(d) == <<b1, d>>
SecondByte ==
  \E d \in Byte : /\ SciRx0Ready("b2", d)
                  /\ StartOver
                  /\ toHost' = toHost \o Responses(X, Answer(d))

Robot == \/ IdleByte \/ ReadMagic \/ ReadType \/ ReadCheck \/ ReadCheckPsd
         \/ ReadLength \/ ReadData \/ ReadCheckData \/ FirstByte \/ SecondByte

-----------------------------------------------------------------------------
(***************************************************************************)
(* The client: a call writes a request and reads with recv_packet.         *)
(***************************************************************************)
\* connect puts the robot into the binary mode; the user takes his time to do so.
Connect ==
  /\ host = "closed" /\ host' = "ready"
  /\ toRobot = <<>> /\ toRobot' = <<b>>
  /\ calls < MaxCalls /\ calls' = calls + 1
  /\ fails' = 0 /\ asked' = Nothing /\ answer' = Nothing
  /\ UNCHANGED <<device, servos, toHost, need, faults>>

\* close asks it to leave; what was received and not read is gone.
Close ==
  /\ host = "ready" /\ host' = "closed"
  /\ toRobot' = toRobot \o basic(p) /\ toHost' = <<>>
  /\ UNCHANGED <<device, servos, asked, need, answer, calls, fails, faults>>

Ask ==
  /\ host = "ready" /\ calls < MaxCalls
  /\ calls' = calls + 1
  /\ asked' \in Requests
  /\ toRobot' = toRobot \o asked'
  /\ host' = "magic" /\ acted' = 0 /\ answer' = Nothing
  /\ UNCHANGED <<device, bus, reply, UDR0, toHost, need, fails, faults>>

Return(good, body) ==
  /\ host' = "ready" /\ need' = 0
  /\ answer' = IF good THEN body ELSE Nothing
  /\ fails' = IF good THEN 0 ELSE fails + 1

RecvMagic ==
  /\ host = "magic" /\ toHost # <<>>
  /\ toHost' = Tail(toHost)
  /\ host' = IF Head(toHost) = MAGIC_RESPONSE THEN "type" ELSE "magic"
  /\ UNCHANGED <<device, servos, toRobot, asked, need, answer, calls, fails, faults>>

BodyLength(t) == IF t \in {x, X} THEN 3 ELSE 2

RecvType ==
  /\ host = "type" /\ toHost # <<>>
  /\ toHost' = Tail(toHost)
  /\ IF Head(toHost) \in {x, X, v, P}
     THEN host' = "body" /\ need' = Head(toHost) /\ UNCHANGED <<answer, fails>>
     ELSE Return(FALSE, Nothing)
  /\ UNCHANGED <<device, servos, toRobot, asked, calls, faults>>

\* A mutant of the definition below: it waits for one byte more.
OneByteMore == Len(toHost) > BodyLength(need)

\* test_packet has no time-out.
AllThere == Len(toHost) >= BodyLength(need)

RecvBody ==
  /\ host = "body" /\ AllThere
  /\ LET n == IF BodyLength(need) < Len(toHost) THEN BodyLength(need) ELSE Len(toHost)
         body == SubSeq(toHost, 1, n)
     IN  /\ toHost' = SubSeq(toHost, n + 1, Len(toHost))
         /\ Return(Check(<<need>> \o SubSeq(body, 1, n - 1)) = body[n], <<need>> \o body)
  /\ UNCHANGED <<device, servos, toRobot, asked, calls, faults>>

\* The line is silent for five seconds: the robot waits for a byte, or is in a mode
\* that does not answer.
Silent == /\ toHost = <<>> /\ reply = <<>>
          /\ robot = "another" \/ (toRobot = <<>> /\ robot \notin {"b1", "b2"})

TimeOut ==
  /\ host \in {"magic", "type"} /\ Silent
  /\ Return(FALSE, Nothing)
  /\ UNCHANGED <<device, servos, line, asked, calls, faults>>

Client == RecvMagic \/ RecvType \/ RecvBody \/ TimeOut

-----------------------------------------------------------------------------
LoseRequestByte ==
  /\ toRobot # <<>> /\ toRobot' = Tail(toRobot)
  /\ lost < MaxLost /\ lost' = lost + 1
  /\ fails' = 0
  /\ UNCHANGED <<device, servos, toHost, host, asked, need, answer, calls, lostAnswer>>

LoseAnswerByte ==
  /\ toHost # <<>> /\ toHost' = Tail(toHost)
  /\ lost < MaxLost /\ lost' = lost + 1 /\ lostAnswer' = TRUE
  /\ fails' = 0
  /\ UNCHANGED <<device, servos, toRobot, host, asked, need, answer, calls>>

Next == Robot \/ ServoReplies \/ Connect \/ Close \/ Ask \/ Client
        \/ LoseRequestByte \/ LoseAnswerByte

\* The robot reads what has come, the servos answer, the client reads on or gives
\* up.  Nobody has to call.
Fairness == WF_vars(Robot) /\ WF_vars(ServoReplies) /\ WF_vars(Client)

Spec == Init /\ [][Next]_vars /\ Fairness

-----------------------------------------------------------------------------
TypeOK ==
  /\ gNextMode \in {"idle", "bin", "another"}
  /\ robot \in {"idle", "another", "magic", "type", "check", "checkPsd", "length", "data",
                "checkData", "b1", "b2"}
  /\ {mt, bsize, cs, b1, need} \subseteq Byte /\ c \in 0 .. MAX_INP_BUF
  /\ Len(UDR0) <= 3
  /\ host \in {"closed", "ready", "magic", "type", "body"}

\* What the servos are told is what the client asks for, once, whatever the line lost,
\* although the bytes are sent on before they are checked (bin_read_x).
CarriedOutOnce ==
  acted' > acted =>
    /\ IsRaw(asked) /\ acted = 0
    /\ PacketOf(asked) \in {bus', Tail(bus')}
ServosObey == [][CarriedOutOnce]_vars

\* A call that succeeds has been answered by the answer to this request, not by an
\* earlier one that came late, if one byte at most was lost (recv_packet takes any
\* answer; bin_read_p answers 'P' to y and Y, too).  If none was lost, 'X' gives the
\* answer of the servo it was for.
AnswerType(request) == IF request[2] \in {y, Y} THEN P ELSE request[2]
Answered == host = "ready" /\ answer # Nothing
OfServo == SubSeq(answer, 2, 3)
AnswerMatches ==
  Answered =>
    /\ lost <= 1 => answer[1] = AnswerType(asked)
    /\ asked[2] = X /\ lost = 0 => OfServo = ServoAnswer(PacketOf(asked))

\* A call returns, unless a byte of its answer is lost; and the robot finds the
\* beginning of a request again.  Without a lost byte no call is in vain; after one,
\* no more than it takes to fill a request that was taken to be as long as the robot
\* lets it be (the readers of experimental_bin_mode.c, recv_packet of binxfer.cs).
FewInVain ==
  gNextMode = "bin" /\ host = "ready" =>
    /\ lost = 0 => fails = 0
    /\ fails <= 1 + (MAX_INP_BUF - 1) \div 3
Recovers == /\ []FewInVain
            /\ (host = "magic") ~> (host \in {"ready", "closed"} \/ lostAnswer)
-----------------------------------------------------------------------------
\* experimental_bin_mode.c 39: "X  raw wck - wait for response", 405: "get response
\* (or timeout)".  What 'X' returns is not what another servo said.
ResponseIsOwn ==
  Answered /\ asked[2] = X =>
    OfServo \notin {ServoAnswer(s) : s \in Packets \ {PacketOf(asked)}}
=============================================================================
