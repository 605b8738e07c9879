-------------------------- MODULE ConnMachineProofs --------------------------
(***************************************************************************)
(* Proofs about ConnMachine, for buffers, answers and sockets of any size  *)
(* and any number of requests, clients and failures.  The longest is that  *)
(* of AnswersInOrder: what the client has asked and not been answered is,  *)
(* line by line, what is in its socket and in the buffer, and what has     *)
(* been written is c whole answers and the beginning of the next one.      *)
(***************************************************************************)
EXTENDS ConnMachine, SequenceTheorems, TLAPS

----------------------------------------------------------------------------
(* The type invariant, in three parts *)

ControlType ==
  /\ state \in States /\ ev \in {"READ", "WRITE"} /\ go \in {"new_cmd", "closing"}
  /\ running \in BOOLEAN /\ armed \in BOOLEAN /\ gotdata \in BOOLEAN /\ open \in BOOLEAN

CounterType ==
  /\ nreqs \in 0 .. Requests /\ allocs \in 0 .. MaxAllocs /\ fails \in 0 .. MaxFails
  /\ lines \in Nat /\ sent \in Nat /\ handled \in Nat /\ clients \in Nat

LEMMA InitControl == Init => ControlType
BY DEF Init, NoClient, ControlType, States

LEMMA NextControl == ControlType /\ [Next]_vars => ControlType'
<1> SUFFICES ASSUME ControlType, [Next]_vars PROVE ControlType' OBVIOUS
<1> USE DEF event, inbuf, out, client, ghost, Goto, Stop, EndRead, Updated, NotUpdated, OutString
<1>1. CASE Send BY <1>1, Zenon DEF Send, ControlType, States
<1>2. CASE Receive BY <1>2, Zenon DEF Receive, ControlType, States
<1>3. CASE Leave BY <1>3, Zenon DEF Leave, ControlType, States
<1>4. CASE Fire BY <1>4, Zenon DEF Fire, ControlType, States
<1>5. CASE Reuse BY <1>5, Zenon DEF Reuse, ControlType, States
<1>6. CASE Waiting BY <1>6, Zenon DEF Waiting, ControlType, States
<1>7. CASE EnoughRead BY <1>7, Zenon DEF EnoughRead, ControlType, States
<1>8. CASE Grow BY <1>8, Zenon DEF Grow, ControlType, States
<1>9. CASE ReadData BY <1>9, Zenon DEF ReadData, ControlType, States
<1>10. CASE NothingToRead BY <1>10, Zenon DEF NothingToRead, ControlType, States
<1>11. CASE ReadError BY <1>11, Zenon DEF ReadError, ControlType, States
<1>12. CASE NoCommand BY <1>12, Zenon DEF NoCommand, ControlType, States
<1>13. CASE Command BY <1>13, Zenon DEF Command, ControlType, States
<1>14. CASE NextCommand BY <1>14, Zenon DEF NextCommand, ControlType, States
<1>15. CASE Yield BY <1>15, Zenon DEF Yield, ControlType, States
<1>16. CASE TransmitSome BY <1>16, Zenon DEF TransmitSome, ControlType, States
<1>17. CASE TransmitComplete BY <1>17, Zenon DEF TransmitComplete, ControlType, States
<1>18. CASE TransmitSoftError BY <1>18, Zenon DEF TransmitSoftError, ControlType, States
<1>19. CASE TransmitHardError BY <1>19, Zenon DEF TransmitHardError, ControlType, States
<1>20. CASE Close BY <1>20, Zenon DEF Close, ControlType, States
<1>21. CASE UNCHANGED vars BY <1>21, Zenon DEF vars, ControlType
<1> QED
  BY <1>1, <1>2, <1>3, <1>4, <1>5, <1>6, <1>7, <1>8, <1>9, <1>10, <1>11, <1>12, <1>13, <1>14,
     <1>15, <1>16, <1>17, <1>18, <1>19, <1>20, <1>21 DEF Next, Machine

LEMMA InitCounter == Init => CounterType
BY AllocAssumption, RequestsAssumption, BoundsAssumption DEF Init, NoClient, CounterType

LEMMA NextCounter == CounterType /\ [Next]_vars => CounterType'
<1> SUFFICES ASSUME CounterType, [Next]_vars PROVE CounterType' OBVIOUS
<1> USE DEF event, inbuf, out, client, ghost, Updated, NotUpdated, Fails
<1>1. CASE Send BY <1>1 DEF Send, CounterType
<1>2. CASE Receive BY <1>2 DEF Receive, CounterType
<1>3. CASE Leave BY <1>3 DEF Leave, CounterType
<1>4. CASE Fire BY <1>4, AllocAssumption, RequestsAssumption DEF Fire, CounterType
<1>5. CASE Reuse BY <1>5 DEF Reuse, CounterType
<1>6. CASE Waiting BY <1>6, AllocAssumption, BoundsAssumption DEF Waiting, CounterType
<1>7. CASE EnoughRead BY <1>7 DEF EnoughRead, CounterType
<1>8. CASE Grow BY <1>8, AllocAssumption, BoundsAssumption DEF Grow, CounterType
<1>9. CASE ReadData BY <1>9 DEF ReadData, CounterType
<1>10. CASE NothingToRead BY <1>10 DEF NothingToRead, CounterType
<1>11. CASE ReadError BY <1>11 DEF ReadError, CounterType
<1>12. CASE NoCommand BY <1>12 DEF NoCommand, CounterType
<1>13. CASE Command BY <1>13 DEF Command, CounterType
<1>14. CASE NextCommand BY <1>14, RequestsAssumption DEF NextCommand, CounterType
<1>15. CASE Yield BY <1>15, BoundsAssumption DEF Yield, CounterType
<1>16. CASE TransmitSome BY <1>16 DEF TransmitSome, CounterType
<1>17. CASE TransmitComplete BY <1>17 DEF TransmitComplete, CounterType
<1>18. CASE TransmitSoftError BY <1>18, BoundsAssumption DEF TransmitSoftError, CounterType
<1>19. CASE TransmitHardError BY <1>19 DEF TransmitHardError, CounterType
<1>20. CASE Close BY <1>20 DEF Close, CounterType
<1>21. CASE UNCHANGED vars BY <1>21 DEF vars, CounterType
<1> QED
  BY <1>1, <1>2, <1>3, <1>4, <1>5, <1>6, <1>7, <1>8, <1>9, <1>10, <1>11, <1>12, <1>13, <1>14,
     <1>15, <1>16, <1>17, <1>18, <1>19, <1>20, <1>21 DEF Next, Machine

----------------------------------------------------------------------------
(* A machine that has stopped *)

\* Stopped: the event is registered; or the object is closed; or the machine
\* was to be closed and update_event had failed.
Armed ==
  /\ ControlType /\ CounterType
  /\ armed \/ state \in {"closed", "aborted"} \/ (state = "closing" /\ fails > 0)

LEMMA NextArmed == Armed /\ [Next]_vars => Armed'
<1> SUFFICES ASSUME Armed, [Next]_vars PROVE Armed' OBVIOUS
<1>0. ControlType' /\ CounterType' /\ fails \in Nat
  BY NextControl, NextCounter, BoundsAssumption DEF Armed, CounterType
<1> DEFINE A == armed \/ state \in {"closed", "aborted"} \/ (state = "closing" /\ fails > 0)
<1>a. A BY DEF Armed
<1> SUFFICES A' BY <1>0 DEF Armed
<1>b. fails \in Nat /\ fails' = fails + 1 => fails' > 0 OBVIOUS
<1> USE DEF event, inbuf, out, client, ghost, Goto, In, Updated, NotUpdated, Fails
<1>1. CASE Send BY <1>1, <1>a, Zenon DEF Send, OutString
<1>2. CASE Receive BY <1>2, <1>a, Zenon DEF Receive, OutString
<1>3. CASE Leave BY <1>3, <1>a, Zenon DEF Leave, OutString
<1>4. CASE Fire BY <1>4, <1>a, Zenon DEF Fire, OutString
<1>5. CASE Reuse BY <1>5, <1>a, Zenon DEF Reuse, OutString
<1>6. CASE Waiting
  <2>1. armed' = armed \/ (fails' = fails + 1 /\ state' = "closing")
    BY <1>6, Zenon DEF Waiting
  <2>2. armed BY <1>6, <1>a DEF Waiting
  <2> QED BY <2>1, <2>2, <1>0, <1>b, Zenon
<1>7. CASE EnoughRead BY <1>7, <1>a, Zenon DEF EnoughRead, OutString
<1>8. CASE Grow
  <2>1. armed' = armed \/ state' = "aborted" BY <1>8, Zenon DEF Grow
  <2>2. armed BY <1>8, <1>a DEF Grow
  <2> QED BY <2>1, <2>2, Zenon
<1>9. CASE ReadData BY <1>9, <1>a, Zenon DEF ReadData, OutString
<1>10. CASE NothingToRead BY <1>10, <1>a, Zenon DEF NothingToRead, OutString
<1>11. CASE ReadError BY <1>11, <1>a, Zenon DEF ReadError, OutString
<1>12. CASE NoCommand BY <1>12, <1>a, Zenon DEF NoCommand, OutString
<1>13. CASE Command BY <1>13, <1>a, Zenon DEF Command, OutString
<1>14. CASE NextCommand BY <1>14, <1>a, Zenon DEF NextCommand, OutString
<1>15. CASE Yield BY <1>15, <1>0, <1>a, <1>b, Zenon DEF Yield, OutString
<1>16. CASE TransmitSome BY <1>16, <1>a, Zenon DEF TransmitSome, OutString
<1>17. CASE TransmitComplete BY <1>17, <1>a, Zenon DEF TransmitComplete, OutString
<1>18. CASE TransmitSoftError
  <2>1. armed' = armed \/ (fails' = fails + 1 /\ state' = "closing")
    BY <1>18, Zenon DEF TransmitSoftError
  <2>2. armed BY <1>18, <1>a DEF TransmitSoftError
  <2> QED BY <2>1, <2>2, <1>0, <1>b, Zenon
<1>19. CASE TransmitHardError BY <1>19, <1>a, Zenon DEF TransmitHardError, OutString
<1>20. CASE Close BY <1>20, <1>a, Zenon DEF Close, OutString
<1>21. CASE UNCHANGED vars BY <1>21, <1>a, Zenon DEF vars, OutString
<1> QED
  BY <1>1, <1>2, <1>3, <1>4, <1>5, <1>6, <1>7, <1>8, <1>9, <1>10, <1>11, <1>12, <1>13, <1>14,
     <1>15, <1>16, <1>17, <1>18, <1>19, <1>20, <1>21 DEF Next, Machine

\* No connection is left without its event, but for the one case.
THEOREM StaysArmed == Spec => []StoppedIsArmed
<1>1. Init => Armed BY InitControl, InitCounter DEF Init, Armed
<1>2. Armed => StoppedIsArmed BY DEF Armed, StoppedIsArmed
<1> QED BY <1>1, <1>2, NextArmed, PTL DEF Spec

----------------------------------------------------------------------------
(* A machine that waits has nothing to do *)

\* A line can be in the buffer only while the machine runs, or while it waits
\* to write.  In particular the loop of try_read_network begins without one.
NoLine ==
  /\ ControlType
  /\ state = "waiting" => running /\ Newlines = {}
  /\ state = "read" /\ (~gotdata \/ ~running) => Newlines = {}
  /\ NothingLeftWaiting

LEMMA NoLineKept ==
  /\ buf' = buf => (Newlines = {} => Newlines' = {})
  /\ buf' = <<>> => Newlines' = {}
  /\ buf = <<>> => Newlines = {}
BY DEF Newlines

LEMMA NextNoLine == NoLine /\ [Next]_vars => NoLine'
<1> SUFFICES ASSUME NoLine, [Next]_vars PROVE NoLine' OBVIOUS
<1> DEFINE None == Newlines = {}
           Wait == state = "waiting" => running /\ None
           Read == state = "read" /\ (~gotdata \/ ~running) => None
           Rest == (~running /\ armed /\ ev = "READ" /\ state # "closing")
                     => state \in {"new_cmd", "read"} /\ None
<1>0. ControlType /\ ControlType' /\ Wait /\ Read /\ Rest
  BY NextControl DEF NoLine, NothingLeftWaiting
<1>k. /\ buf' = buf => (None => None')
      /\ buf' = <<>> => None'
      /\ buf = <<>> => None
  BY NoLineKept
<1> SUFFICES Wait' /\ Read' /\ Rest'
  BY <1>0 DEF NoLine, NothingLeftWaiting
<1> HIDE DEF None
<1> USE DEF event, inbuf, out, client, ghost, Goto, In, Stop, EndRead, Updated, NotUpdated, OutString
<1>1. CASE Send BY <1>1, <1>0, <1>k, Zenon DEF Send, Fails
<1>2. CASE Receive BY <1>2, <1>0, <1>k, Zenon DEF Receive, Fails
<1>3. CASE Leave BY <1>3, <1>0, <1>k, Zenon DEF Leave, Fails
<1>4. CASE Fire BY <1>4, <1>0, <1>k, Zenon DEF Fire, Fails
<1>5. CASE Reuse BY <1>5, <1>0, <1>k, Zenon DEF Reuse, NewConn
<1>6. CASE Waiting BY <1>6, <1>0, <1>k, Zenon DEF Waiting, Fails
<1>7. CASE EnoughRead BY <1>7, <1>0, <1>k, Zenon DEF EnoughRead, Fails
<1>8. CASE Grow BY <1>8, <1>0, <1>k, Zenon DEF Grow, Fails
<1>9. CASE ReadData BY <1>9, <1>0, <1>k, Zenon DEF ReadData, Fails
<1>10. CASE NothingToRead BY <1>10, <1>0, <1>k, Zenon DEF NothingToRead, Fails
<1>11. CASE ReadError BY <1>11, <1>0, <1>k, Zenon DEF ReadError, Fails
<1>12. CASE NoCommand
  <2>1. None BY <1>12 DEF NoCommand, None
  <2> QED BY <1>12, <2>1, <1>0, <1>k, Zenon DEF NoCommand
<1>13. CASE Command BY <1>13, <1>0, <1>k, Zenon DEF Command, Fails
<1>14. CASE NextCommand BY <1>14, <1>0, <1>k, Zenon DEF NextCommand, Fails
<1>15. CASE Yield BY <1>15, <1>0, <1>k, Zenon DEF Yield, Fails
<1>16. CASE TransmitSome BY <1>16, <1>0, <1>k, Zenon DEF TransmitSome, Fails
<1>17. CASE TransmitComplete BY <1>17, <1>0, <1>k, Zenon DEF TransmitComplete, ControlType
<1>18. CASE TransmitSoftError BY <1>18, <1>0, <1>k, Zenon DEF TransmitSoftError, Fails
<1>19. CASE TransmitHardError BY <1>19, <1>0, <1>k, Zenon DEF TransmitHardError, Fails
<1>20. CASE Close BY <1>20, <1>0, <1>k, Zenon DEF Close, Fails
<1>21. CASE UNCHANGED vars BY <1>21, <1>0, <1>k, Zenon DEF vars, Fails
<1> QED
  BY <1>1, <1>2, <1>3, <1>4, <1>5, <1>6, <1>7, <1>8, <1>9, <1>10, <1>11, <1>12, <1>13, <1>14,
     <1>15, <1>16, <1>17, <1>18, <1>19, <1>20, <1>21 DEF Next, Machine

\* No machine stops to wait for something to read with a line in its buffer.
THEOREM LeavesNothing == Spec => []NothingLeftWaiting
<1>1. Init => NoLine BY InitControl, NoLineKept DEF Init, NoLine, NothingLeftWaiting
<1>2. NoLine => NothingLeftWaiting BY DEF NoLine
<1> QED BY <1>1, <1>2, NextNoLine, PTL DEF Spec

----------------------------------------------------------------------------
(* One event *)

\* What is answered in an event and the turns it has left are never more than
\* the turns it began with; and one, for the line that is parsed first.
Budget ==
  /\ ControlType /\ CounterType
  /\ handled + nreqs <= Requests + 1
  /\ state \in {"parse_cmd", "read", "waiting"} => handled + nreqs <= Requests

LEMMA NextBudget == Budget /\ [Next]_vars => Budget'
<1> SUFFICES ASSUME Budget, [Next]_vars PROVE Budget' OBVIOUS
<1> DEFINE B == /\ handled + nreqs <= Requests + 1
                /\ state \in {"parse_cmd", "read", "waiting"} => handled + nreqs <= Requests
<1>0. /\ ControlType' /\ CounterType' /\ B
      /\ handled \in Nat /\ nreqs \in 0 .. Requests /\ go \in {"new_cmd", "closing"}
  BY NextControl, NextCounter DEF Budget, ControlType, CounterType
<1> SUFFICES B' BY <1>0 DEF Budget
<1> USE DEF event, inbuf, out, client, ghost, Goto, In, EndRead
<1>1. CASE Send BY <1>1, <1>0 DEF Send, OutString
<1>2. CASE Receive BY <1>2, <1>0 DEF Receive, OutString
<1>3. CASE Leave BY <1>3, <1>0 DEF Leave, OutString
<1>4. CASE Fire BY <1>4, <1>0, RequestsAssumption DEF Fire, OutString
<1>5. CASE Reuse BY <1>5, <1>0, RequestsAssumption DEF Reuse, OutString
<1>6. CASE Waiting BY <1>6, <1>0 DEF Waiting, OutString
<1>7. CASE EnoughRead BY <1>7, <1>0 DEF EnoughRead, OutString
<1>8. CASE Grow BY <1>8, <1>0 DEF Grow, OutString
<1>9. CASE ReadData BY <1>9, <1>0 DEF ReadData, OutString
<1>10. CASE NothingToRead BY <1>10, <1>0 DEF NothingToRead, OutString
<1>11. CASE ReadError BY <1>11, <1>0 DEF ReadError, OutString
<1>12. CASE NoCommand BY <1>12, <1>0 DEF NoCommand, OutString
<1>13. CASE Command BY <1>13, <1>0, RequestsAssumption DEF Command, OutString
<1>14. CASE NextCommand BY <1>14, <1>0, RequestsAssumption DEF NextCommand, OutString
<1>15. CASE Yield BY <1>15, <1>0 DEF Yield, OutString
<1>16. CASE TransmitSome BY <1>16, <1>0 DEF TransmitSome, OutString
<1>17. CASE TransmitComplete BY <1>17, <1>0 DEF TransmitComplete, OutString
<1>18. CASE TransmitSoftError BY <1>18, <1>0 DEF TransmitSoftError, OutString
<1>19. CASE TransmitHardError BY <1>19, <1>0 DEF TransmitHardError, OutString
<1>20. CASE Close BY <1>20, <1>0 DEF Close, OutString
<1>21. CASE UNCHANGED vars BY <1>21, <1>0 DEF vars, OutString
<1> QED
  BY <1>1, <1>2, <1>3, <1>4, <1>5, <1>6, <1>7, <1>8, <1>9, <1>10, <1>11, <1>12, <1>13, <1>14,
     <1>15, <1>16, <1>17, <1>18, <1>19, <1>20, <1>21 DEF Next, Machine

\* No event answers more requests than it may, and one.
THEOREM BoundsEvents == Spec => []EventBounded
<1>1. Init => Budget
  BY InitControl, InitCounter, RequestsAssumption DEF Init, NoClient, Budget
<1>2. Budget => EventBounded
  BY RequestsAssumption DEF Budget, CounterType, EventBounded
<1> QED BY <1>1, <1>2, NextBudget, PTL DEF Spec

----------------------------------------------------------------------------
(* The buffers *)

InputType ==
  /\ buf \in Seq(Int) /\ rsize \in Nat /\ Len(buf) <= rsize
  /\ net \in Seq(Int) /\ asked \in Seq(Nat) /\ lines \in Nat

LEMMA InitInput == Init => InputType
BY EmptySeq, SizeAssumption DEF Init, NoClient, InputType

\* What is read fits: read is given what is free in the buffer.
LEMMA ReadFits == InputType /\ ReadData => InputType'
<1> SUFFICES ASSUME InputType, ReadData PROVE InputType' OBVIOUS
<1>1. buf \in Seq(Int) /\ net \in Seq(Int) /\ rsize \in Nat /\ Len(buf) <= rsize
  BY DEF InputType
<1> DEFINE n == Minimum(Avail, Len(net))
<1>2. n \in 0 .. Len(net) /\ n <= rsize - Len(buf) BY <1>1 DEF Minimum, Avail
<1>3. /\ SubSeq(net, 1, n) \in Seq(Int) /\ Len(SubSeq(net, 1, n)) = n
      /\ SubSeq(net, n + 1, Len(net)) \in Seq(Int)
  BY <1>1, <1>2, SubSeqProperties
<1>4. buf' = buf \o SubSeq(net, 1, n) /\ net' = SubSeq(net, n + 1, Len(net)) BY DEF ReadData
<1>5. buf' \in Seq(Int) /\ net' \in Seq(Int) /\ Len(buf') <= rsize
  BY <1>1, <1>2, <1>3, <1>4, ConcatProperties
<1> QED BY <1>5 DEF ReadData, InputType

LEMMA CommandInput == InputType /\ Command => InputType'
<1> SUFFICES ASSUME InputType, Command PROVE InputType' OBVIOUS
<1>1. buf \in Seq(Int) /\ Len(buf) \in Nat /\ DOMAIN buf = 1 .. Len(buf) /\ Len(buf) <= rsize
      /\ rsize \in Nat
  BY LenProperties DEF InputType
<1>2. PICK i \in Newlines : Consume(i) BY DEF Command
<1>3. i \in 1 .. Len(buf) BY <1>1, <1>2 DEF Newlines
<1>4. buf' \in Seq(Int) /\ Len(buf') <= rsize
  BY <1>1, <1>2, <1>3, SubSeqProperties DEF Consume
<1> QED BY <1>4 DEF Command, InputType, client

LEMMA SendInput == InputType /\ Send => InputType'
<1> SUFFICES ASSUME InputType, Send PROVE InputType' OBVIOUS
<1>1. PICK u \in {0, lines + 1, -(lines + 1)} :
        /\ net' = Append(net, u)
        /\ lines' = IF u = 0 THEN lines ELSE lines + 1
        /\ asked' = IF u > 0 THEN Append(asked, u) ELSE asked
  BY DEF Send
<1>2. u \in Int /\ lines \in Nat BY <1>1 DEF InputType
<1>3. net' \in Seq(Int) BY <1>1, <1>2, AppendProperties DEF InputType
<1>4. asked' \in Seq(Nat)
  <2>1. CASE u > 0 BY <1>1, <1>2, <2>1, AppendProperties DEF InputType
  <2>2. CASE ~(u > 0) BY <1>1, <2>2 DEF InputType
  <2> QED BY <2>1, <2>2
<1>5. lines' \in Nat BY <1>1, <1>2
<1> QED BY <1>3, <1>4, <1>5 DEF Send, InputType, inbuf

LEMMA NextInput == InputType /\ [Next]_vars => InputType'
<1> SUFFICES ASSUME InputType, [Next]_vars PROVE InputType' OBVIOUS
<1> USE DEF event, inbuf, out, client, ghost
<1>1. CASE Send BY <1>1, SendInput
<1>2. CASE Receive BY <1>2 DEF Receive, InputType
<1>3. CASE Leave BY <1>3 DEF Leave, InputType
<1>4. CASE Fire BY <1>4 DEF Fire, InputType
<1>5. CASE Reuse BY <1>5, EmptySeq DEF Reuse, NewConn, InputType
<1>6. CASE Waiting BY <1>6 DEF Waiting, InputType
<1>7. CASE EnoughRead BY <1>7 DEF EnoughRead, InputType
<1>8. CASE Grow
  <2>1. /\ (buf' = buf \/ buf' = <<>>) /\ (rsize' = rsize \/ rsize' = 2 * rsize)
        /\ net' = net /\ asked' = asked /\ lines' = lines
    BY <1>8 DEF Grow
  <2>2. rsize' \in Nat /\ rsize <= rsize' BY <2>1 DEF InputType
  <2>3. CASE buf' = buf
    <3>1. Len(buf) <= rsize' BY <2>2 DEF InputType
    <3> QED BY <2>1, <2>2, <2>3, <3>1, Zenon DEF InputType
  <2>4. CASE buf' = <<>>
    <3>1. <<>> \in Seq(Int) /\ Len(<<>>) <= rsize' BY <2>2, EmptySeq
    <3> QED BY <2>1, <2>2, <2>4, <3>1, Zenon DEF InputType
  <2> QED BY <2>1, <2>3, <2>4
<1>9. CASE ReadData BY <1>9, ReadFits
<1>10. CASE NothingToRead BY <1>10 DEF NothingToRead, InputType
<1>11. CASE ReadError BY <1>11 DEF ReadError, InputType
<1>12. CASE NoCommand BY <1>12 DEF NoCommand, InputType
<1>13. CASE Command BY <1>13, CommandInput
<1>14. CASE NextCommand BY <1>14 DEF NextCommand, InputType
<1>15. CASE Yield BY <1>15 DEF Yield, InputType
<1>16. CASE TransmitSome BY <1>16 DEF TransmitSome, InputType
<1>17. CASE TransmitComplete BY <1>17 DEF TransmitComplete, InputType
<1>18. CASE TransmitSoftError BY <1>18 DEF TransmitSoftError, InputType
<1>19. CASE TransmitHardError BY <1>19 DEF TransmitHardError, InputType
<1>20. CASE Close BY <1>20 DEF Close, InputType
<1>21. CASE UNCHANGED vars BY <1>21 DEF vars, InputType
<1> QED
  BY <1>1, <1>2, <1>3, <1>4, <1>5, <1>6, <1>7, <1>8, <1>9, <1>10, <1>11, <1>12, <1>13, <1>14,
     <1>15, <1>16, <1>17, <1>18, <1>19, <1>20, <1>21 DEF Next, Machine

\* An answer is at most two messages.
OutputType ==
  /\ reply \in Nat /\ msgs \in Seq(0 .. ReplyLen) /\ Len(msgs) <= 2 /\ msgcurr \in 1 .. 3
  /\ unread \in 0 .. Room /\ wrote \in Seq(Nat)

LEMMA InitOutput == Init => OutputType
BY EmptySeq, RoomAssumption DEF Init, NoClient, OutputType

LEMMA OneOrTwo == \A l : l \in 1 .. 2 <=> l \in Nat /\ l # 0 /\ l <= 2
OBVIOUS

LEMMA MessagesType ==
  ASSUME OutputType
  PROVE  /\ Messages \in Seq(0 .. ReplyLen) /\ Len(Messages) \in 1 .. 2
         /\ Current \in 1 .. 3
<1>0. Len(msgs) <= 2 BY Zenon DEF OutputType
<1>1. msgs \in Seq(0 .. ReplyLen) BY Zenon DEF OutputType
<1>m. msgcurr \in 1 .. 3 BY Zenon DEF OutputType
<1>2. Messages \in Seq(0 .. ReplyLen) /\ Len(Messages) \in 1 .. 2
  <2>1. CASE msgs # <<>>
    <3>1. Messages = msgs BY <2>1 DEF Messages
    <3>2. Len(msgs) \in Nat /\ Len(msgs) # 0 BY <1>1, <2>1, EmptySeq
    <3>3. Len(msgs) \in 1 .. 2 BY <1>0, <3>2, OneOrTwo, Zenon
    <3> QED BY <1>1, <3>1, <3>3, Zenon
  <2>2. CASE msgs = <<>> /\ reply = 0 BY <2>2, ReplyAssumption DEF Messages
  <2>3. CASE msgs = <<>> /\ reply # 0 BY <2>3, ReplyAssumption DEF Messages, Split
  <2> QED BY <2>1, <2>2, <2>3
<1>3. Current \in 1 .. 3
  <2>1. Current = msgcurr \/ (Current = msgcurr + 1 /\ msgcurr <= Len(Messages)) BY Zenon DEF Current
  <2>2. Len(Messages) \in 1 .. 2 BY <1>2, Zenon
  <2>3. \A l : l \in 1 .. 2 /\ msgcurr <= l => msgcurr + 1 \in 1 .. 3 BY <1>m
  <2> QED BY <1>m, <2>1, <2>2, <2>3, Zenon
<1> QED BY <1>2, <1>3

\* No more is sent of a message than it holds, nor than the socket takes.
LEMMA SomeOutput == OutputType /\ TransmitSome => OutputType'
<1> SUFFICES ASSUME OutputType, TransmitSome PROVE OutputType' OBVIOUS
<1>1. PICK n \in 1 .. Minimum(Messages[Current], Room - unread) :
        /\ msgs' = Shortened(n) /\ unread' = unread + n
        /\ wrote' = wrote \o [i \in 1 .. n |-> reply]
  BY DEF TransmitSome
<1>2. /\ Messages \in Seq(0 .. ReplyLen) /\ Len(Messages) \in 1 .. 2 /\ Current \in 1 .. 3
      /\ Current <= Len(Messages)
  BY MessagesType DEF TransmitSome
<1>3. Messages[Current] \in 0 .. ReplyLen
  <2>1. Current \in 1 .. Len(Messages) BY <1>2
  <2> QED BY <1>2, <2>1, ElementOfSeq
<1>4. n \in 1 .. Messages[Current] /\ unread' \in 0 .. Room
  BY <1>1, <1>3, RoomAssumption DEF Minimum, OutputType
<1>5. Messages[Current] - n \in 0 .. ReplyLen BY <1>3, <1>4, ReplyAssumption
<1>6. msgs' = [Messages EXCEPT ![Current] = Messages[Current] - n] BY <1>1 DEF Shortened
<1>7. msgs' \in Seq(0 .. ReplyLen) /\ Len(msgs') <= 2 BY <1>2, <1>5, <1>6, ExceptSeq
<1>8. [i \in 1 .. n |-> reply] \in Seq(Nat)
  <2>1. n \in Nat /\ reply \in Nat BY <1>3, <1>4 DEF OutputType
  <2> QED BY <2>1
<1>9. wrote' \in Seq(Nat) BY <1>1, <1>8, ConcatProperties DEF OutputType
<1> QED BY <1>2, <1>4, <1>7, <1>9 DEF TransmitSome, OutputType

LEMMA CommandOutput == InputType /\ OutputType /\ Command => OutputType'
<1> SUFFICES ASSUME InputType, OutputType, Command PROVE OutputType' OBVIOUS
<1>1. PICK i \in Newlines :
          IF buf[i] > 0
          THEN OutString(buf[i], "new_cmd") /\ handled' = handled + 1
          ELSE msgs' = <<>> /\ msgcurr' = 1 /\ UNCHANGED <<state, reply, go, handled>>
  BY DEF Command
<1>2. buf \in Seq(Int) /\ i \in DOMAIN buf BY <1>1 DEF InputType, Newlines
<1>3. buf[i] \in Int BY <1>2, ElementOfSeq, LenProperties
<1>4. msgs' = <<>> /\ msgcurr' = 1 /\ reply' \in Nat
  BY <1>1, <1>3 DEF OutString, OutputType
<1> QED BY <1>4, EmptySeq DEF Command, OutputType, client

LEMMA NextOutput == InputType /\ OutputType /\ [Next]_vars => OutputType'
<1> SUFFICES ASSUME InputType, OutputType, [Next]_vars PROVE OutputType' OBVIOUS
<1> USE DEF event, inbuf, out, client, ghost
<1>1. CASE Send BY <1>1 DEF Send, OutputType
<1>2. CASE Receive BY <1>2, RoomAssumption DEF Receive, OutputType
<1>3. CASE Leave BY <1>3 DEF Leave, OutputType
<1>4. CASE Fire BY <1>4 DEF Fire, OutputType
<1>5. CASE Reuse BY <1>5, EmptySeq, RoomAssumption DEF Reuse, NewConn, OutputType
<1>6. CASE Waiting BY <1>6 DEF Waiting, OutputType
<1>7. CASE EnoughRead BY <1>7 DEF EnoughRead, OutputType
<1>8. CASE Grow
  <2>1. /\ (msgs' = <<>> /\ reply' = 0 /\ msgcurr' = 1)
             \/ (msgs' = msgs /\ reply' = reply /\ msgcurr' = msgcurr)
        /\ unread' = unread /\ wrote' = wrote
    BY <1>8 DEF Grow, OutString
  <2>2. /\ <<>> \in Seq(0 .. ReplyLen) /\ Len(<<>>) <= 2
        /\ 0 \in Nat /\ 1 \in 1 .. 3
    BY EmptySeq
  <2> QED BY <2>1, <2>2, Zenon DEF OutputType
<1>9. CASE ReadData BY <1>9 DEF ReadData, OutputType
<1>10. CASE NothingToRead BY <1>10 DEF NothingToRead, OutputType
<1>11. CASE ReadError BY <1>11 DEF ReadError, OutputType
<1>12. CASE NoCommand BY <1>12 DEF NoCommand, OutputType
<1>13. CASE Command BY <1>13, CommandOutput
<1>14. CASE NextCommand BY <1>14 DEF NextCommand, OutputType
<1>15. CASE Yield BY <1>15 DEF Yield, OutputType
<1>16. CASE TransmitSome BY <1>16, SomeOutput
<1>17. CASE TransmitComplete
  <2>1. /\ msgs' = Messages /\ msgcurr' = Current /\ reply' = reply
        /\ unread' = unread /\ wrote' = wrote
    BY <1>17 DEF TransmitComplete
  <2>2. Messages \in Seq(0 .. ReplyLen) /\ Current \in 1 .. 3 BY MessagesType, Zenon
  <2>3. Len(Messages) \in 1 .. 2 BY MessagesType, Zenon
  <2>4. Len(Messages) <= 2 BY <2>3, OneOrTwo, Zenon
  <2> QED BY <2>1, <2>2, <2>4, Zenon DEF OutputType
<1>18. CASE TransmitSoftError
  <2>1. /\ msgs' = Messages /\ msgcurr' = Current /\ reply' = reply
        /\ unread' = unread /\ wrote' = wrote
    BY <1>18 DEF TransmitSoftError
  <2>2. Messages \in Seq(0 .. ReplyLen) /\ Current \in 1 .. 3 BY MessagesType, Zenon
  <2>3. Len(Messages) \in 1 .. 2 BY MessagesType, Zenon
  <2>4. Len(Messages) <= 2 BY <2>3, OneOrTwo, Zenon
  <2> QED BY <2>1, <2>2, <2>4, Zenon DEF OutputType
<1>19. CASE TransmitHardError
  <2>1. /\ msgs' = Messages /\ msgcurr' = Current /\ reply' = reply
        /\ unread' = unread /\ wrote' = wrote
    BY <1>19 DEF TransmitHardError
  <2>2. Messages \in Seq(0 .. ReplyLen) /\ Current \in 1 .. 3 BY MessagesType, Zenon
  <2>3. Len(Messages) \in 1 .. 2 BY MessagesType, Zenon
  <2>4. Len(Messages) <= 2 BY <2>3, OneOrTwo, Zenon
  <2> QED BY <2>1, <2>2, <2>4, Zenon DEF OutputType
<1>20. CASE Close BY <1>20 DEF Close, OutputType
<1>21. CASE UNCHANGED vars BY <1>21 DEF vars, OutputType
<1> QED
  BY <1>1, <1>2, <1>3, <1>4, <1>5, <1>6, <1>7, <1>8, <1>9, <1>10, <1>11, <1>12, <1>13, <1>14,
     <1>15, <1>16, <1>17, <1>18, <1>19, <1>20, <1>21 DEF Next, Machine

\* The type invariant: among it, that the read buffer is never overrun.
THEOREM TypeCorrect == Spec => []TypeOK
<1> DEFINE T == ControlType /\ CounterType /\ InputType /\ OutputType
<1>1. Init => T BY InitControl, InitCounter, InitInput, InitOutput
<1>2. T /\ [Next]_vars => T' BY NextControl, NextCounter, NextInput, NextOutput
<1>3. T => TypeOK
  BY Zenon DEF ControlType, CounterType, InputType, OutputType, TypeOK
<1> QED BY <1>1, <1>2, <1>3, PTL DEF Spec

----------------------------------------------------------------------------
(* Division and the order of the lines *)

LEMMA TimesMonotone ==
  ASSUME NEW r \in Nat, NEW x \in Int, NEW y \in Int, x <= y
  PROVE  x * r <= y * r
<1>1. PICK d \in Nat : y = x + d
  <2>1. y - x \in Nat /\ y = x + (y - x) OBVIOUS
  <2> QED BY <2>1
<1>2. (x + d) * r = x * r + d * r OBVIOUS
<1>3. d * r >= 0 OBVIOUS
<1>4. x * r \in Int /\ d * r \in Int OBVIOUS
<1> QED BY <1>1, <1>2, <1>3, <1>4

LEMMA DivOf ==
  ASSUME NEW r \in Nat \ {0}, NEW c \in Nat, NEW q \in 0 .. r - 1
  PROVE  (c * r + q) \div r = c
<1> DEFINE x == c * r + q
           d == x \div r
<1>1. c * r \in Int /\ x \in Int OBVIOUS
<1>2. d \in Int /\ d * r <= x /\ x < (d + 1) * r
  OBVIOUS
<1> HIDE DEF d
<1>3. ~ (d < c)
  <2> SUFFICES ASSUME d + 1 <= c PROVE FALSE BY <1>2
  <2>1. (d + 1) * r <= c * r BY <1>2, TimesMonotone
  <2>2. (d + 1) * r \in Int BY <1>2
  <2> QED BY <2>1, <2>2, <1>1, <1>2
<1>4. ~ (c < d)
  <2> SUFFICES ASSUME c + 1 <= d PROVE FALSE BY <1>2
  <2>1. (c + 1) * r <= d * r BY <1>2, TimesMonotone
  <2>2. (c + 1) * r = c * r + r /\ d * r \in Int BY <1>2
  <2> QED BY <2>1, <2>2, <1>1, <1>2
<1> QED BY <1>2, <1>3, <1>4 DEF d

Mag(x) == IF x < 0 THEN -x ELSE x

\* s[1] .. s[n] is what a client has sent and the server has not yet parsed, l
\* the number of its lines, q[1] .. q[e] the numbers of those that call for an
\* answer.  The lines of s are in order, and the requests among them are those
\* of q from a + 1 on.
InOrder(s, n, q, e, l, a) ==
  /\ \A i \in 1 .. n : s[i] \in Int /\ Mag(s[i]) <= l
  /\ \A i, j \in 1 .. n : i < j /\ s[i] # 0 /\ s[j] # 0 => Mag(s[i]) < Mag(s[j])
  /\ \A k \in 1 .. e : q[k] \in Nat /\ 0 < q[k] /\ q[k] <= l
  /\ \A k, m \in 1 .. e : k < m => q[k] < q[m]
  /\ \A k \in 1 .. e : k > a => \E i \in 1 .. n : s[i] = q[k]
  /\ \A i \in 1 .. n : s[i] > 0 => \E k \in 1 .. e : k > a /\ q[k] = s[i]

LEMMA Appended ==
  ASSUME NEW S, NEW s \in Seq(S), NEW u \in S
  PROVE  /\ Append(s, u) \in Seq(S) /\ Len(s) \in Nat /\ Len(Append(s, u)) = Len(s) + 1
         /\ \A i \in 1 .. Len(s) : Append(s, u)[i] = s[i]
         /\ Append(s, u)[Len(s) + 1] = u
  BY AppendProperties, ElementOfSeq, LenProperties

\* The client sends a byte.
LEMMA OrderSendByte ==
  ASSUME NEW s, NEW n \in Nat, NEW q, NEW e \in Nat, NEW l \in Nat, NEW a \in Nat,
         InOrder(s, n, q, e, l, a),
         NEW t, \A i \in 1 .. n : t[i] = s[i], t[n + 1] = 0
  PROVE  InOrder(t, n + 1, q, e, l, a)
<1>1. \A i \in 1 .. n + 1 : i \in 1 .. n \/ i = n + 1 OBVIOUS
<1>2. \A i \in 1 .. n : i \in 1 .. n + 1 OBVIOUS
<1>3. Mag(0) = 0 BY DEF Mag
<1>4. \A i \in 1 .. n + 1 : t[i] \in Int /\ Mag(t[i]) <= l
  BY <1>1, <1>3 DEF InOrder
<1>5. \A i, j \in 1 .. n + 1 : i < j /\ t[i] # 0 /\ t[j] # 0 => Mag(t[i]) < Mag(t[j])
  BY <1>1 DEF InOrder
<1>6. \A k \in 1 .. e : k > a => \E i \in 1 .. n + 1 : t[i] = q[k]
  BY <1>2 DEF InOrder
<1>7. ASSUME NEW i \in 1 .. n + 1, t[i] > 0 PROVE \E k \in 1 .. e : k > a /\ q[k] = t[i]
  <2>1. i \in 1 .. n BY <1>1, <1>7
  <2> QED BY <2>1, <1>7 DEF InOrder
<1> QED BY <1>4, <1>5, <1>6, <1>7 DEF InOrder

\* ... the end of a line that is not answered.
LEMMA OrderSendLine ==
  ASSUME NEW s, NEW n \in Nat, NEW q, NEW e \in Nat, NEW l \in Nat, NEW a \in Nat,
         InOrder(s, n, q, e, l, a),
         NEW t, \A i \in 1 .. n : t[i] = s[i], t[n + 1] = -(l + 1)
  PROVE  InOrder(t, n + 1, q, e, l + 1, a)
<1>1. \A i \in 1 .. n + 1 : i \in 1 .. n \/ i = n + 1 OBVIOUS
<1>2. \A i \in 1 .. n : i \in 1 .. n + 1 OBVIOUS
<1>3. t[n + 1] \in Int /\ t[n + 1] < 0 /\ Mag(t[n + 1]) = l + 1 BY DEF Mag
<1>s. \A i \in 1 .. n : s[i] \in Int /\ Mag(s[i]) \in Int /\ Mag(s[i]) <= l
  BY DEF InOrder, Mag
<1>4. ASSUME NEW i \in 1 .. n + 1 PROVE t[i] \in Int /\ Mag(t[i]) <= l + 1
  <2>1. CASE i = n + 1 BY <2>1, <1>3
  <2>2. CASE i \in 1 .. n
    <3>1. t[i] = s[i] BY <2>2
    <3>2. s[i] \in Int /\ Mag(s[i]) \in Int /\ Mag(s[i]) <= l BY <2>2, <1>s
    <3> QED BY <3>1, <3>2
  <2> QED BY <2>1, <2>2, <1>1
<1>5. ASSUME NEW i \in 1 .. n + 1, NEW j \in 1 .. n + 1, i < j, t[i] # 0, t[j] # 0
      PROVE  Mag(t[i]) < Mag(t[j])
  <2>1. CASE j = n + 1
    <3>1. i \in 1 .. n /\ t[i] = s[i] BY <2>1, <1>5
    <3>2. Mag(s[i]) \in Int /\ Mag(s[i]) <= l BY <3>1, <1>s
    <3> QED BY <2>1, <3>1, <3>2, <1>3
  <2>2. CASE j # n + 1
    <3>1. i \in 1 .. n /\ j \in 1 .. n BY <2>2, <1>5
    <3> QED BY <3>1, <1>5 DEF InOrder
  <2> QED BY <2>1, <2>2
<1>6. \A k \in 1 .. e : k > a => \E i \in 1 .. n + 1 : t[i] = q[k]
  BY <1>2 DEF InOrder
<1>7. ASSUME NEW i \in 1 .. n + 1, t[i] > 0 PROVE \E k \in 1 .. e : k > a /\ q[k] = t[i]
  <2>1. i \in 1 .. n BY <1>1, <1>3, <1>7
  <2> QED BY <2>1, <1>7 DEF InOrder
<1>8. \A k \in 1 .. e : q[k] \in Nat /\ 0 < q[k] /\ q[k] <= l + 1
  BY DEF InOrder
<1>9. \A k, m \in 1 .. e : k < m => q[k] < q[m] BY DEF InOrder
<1> QED BY <1>4, <1>5, <1>6, <1>7, <1>8, <1>9 DEF InOrder

\* ... the end of one that is.
LEMMA OrderSendRequest ==
  ASSUME NEW s, NEW n \in Nat, NEW q, NEW e \in Nat, NEW l \in Nat, NEW a \in Nat, a <= e,
         InOrder(s, n, q, e, l, a),
         NEW t, \A i \in 1 .. n : t[i] = s[i], t[n + 1] = l + 1,
         NEW r, \A k \in 1 .. e : r[k] = q[k], r[e + 1] = l + 1
  PROVE  InOrder(t, n + 1, r, e + 1, l + 1, a)
<1>1. \A i \in 1 .. n + 1 : i \in 1 .. n \/ i = n + 1 OBVIOUS
<1>2. \A i \in 1 .. n : i \in 1 .. n + 1 OBVIOUS
<1>3. t[n + 1] \in Int /\ Mag(t[n + 1]) = l + 1 BY DEF Mag
<1>s. \A i \in 1 .. n : s[i] \in Int /\ Mag(s[i]) \in Int /\ Mag(s[i]) <= l
  BY DEF InOrder, Mag
<1>k. \A k \in 1 .. e + 1 : k \in 1 .. e \/ k = e + 1 OBVIOUS
<1>q. \A k \in 1 .. e : q[k] \in Nat /\ 0 < q[k] /\ q[k] <= l /\ k \in 1 .. e + 1
  BY DEF InOrder
<1>4. ASSUME NEW i \in 1 .. n + 1 PROVE t[i] \in Int /\ Mag(t[i]) <= l + 1
  <2>1. CASE i = n + 1 BY <2>1, <1>3
  <2>2. CASE i \in 1 .. n
    <3>1. t[i] = s[i] BY <2>2
    <3>2. s[i] \in Int /\ Mag(s[i]) \in Int /\ Mag(s[i]) <= l BY <2>2, <1>s
    <3> QED BY <3>1, <3>2
  <2> QED BY <2>1, <2>2, <1>1
<1>5. ASSUME NEW i \in 1 .. n + 1, NEW j \in 1 .. n + 1, i < j, t[i] # 0, t[j] # 0
      PROVE  Mag(t[i]) < Mag(t[j])
  <2>1. CASE j = n + 1
    <3>1. i \in 1 .. n /\ t[i] = s[i] BY <2>1, <1>5
    <3>2. Mag(s[i]) \in Int /\ Mag(s[i]) <= l BY <3>1, <1>s
    <3> QED BY <2>1, <3>1, <3>2, <1>3
  <2>2. CASE j # n + 1
    <3>1. i \in 1 .. n /\ j \in 1 .. n BY <2>2, <1>5
    <3> QED BY <3>1, <1>5 DEF InOrder
  <2> QED BY <2>1, <2>2
<1>6. ASSUME NEW k \in 1 .. e + 1 PROVE r[k] \in Nat /\ 0 < r[k] /\ r[k] <= l + 1
  <2>1. CASE k = e + 1 BY <2>1
  <2>2. CASE k \in 1 .. e
    <3>1. r[k] = q[k] BY <2>2
    <3>2. q[k] \in Nat /\ 0 < q[k] /\ q[k] <= l BY <2>2, <1>q
    <3> QED BY <3>1, <3>2
  <2> QED BY <2>1, <2>2, <1>k
<1>7. ASSUME NEW k \in 1 .. e + 1, NEW m \in 1 .. e + 1, k < m PROVE r[k] < r[m]
  <2>1. CASE m = e + 1
    <3>1. k \in 1 .. e /\ r[k] = q[k] BY <2>1, <1>7
    <3>2. q[k] \in Nat /\ q[k] <= l BY <3>1, <1>q
    <3> QED BY <2>1, <3>1, <3>2
  <2>2. CASE m # e + 1
    <3>1. k \in 1 .. e /\ m \in 1 .. e BY <2>2, <1>7
    <3> QED BY <3>1, <1>7 DEF InOrder
  <2> QED BY <2>1, <2>2
<1>8. ASSUME NEW k \in 1 .. e + 1, k > a PROVE \E i \in 1 .. n + 1 : t[i] = r[k]
  <2>1. CASE k = e + 1
    <3>1. n + 1 \in 1 .. n + 1 /\ t[n + 1] = r[k] BY <2>1
    <3> QED BY <3>1
  <2>2. CASE k \in 1 .. e
    <3>1. PICK i \in 1 .. n : s[i] = q[k] BY <2>2, <1>8 DEF InOrder
    <3>2. t[i] = r[k] /\ i \in 1 .. n + 1 BY <2>2, <3>1, <1>2
    <3> QED BY <3>2
  <2> QED BY <2>1, <2>2, <1>k
<1>9. ASSUME NEW i \in 1 .. n + 1, t[i] > 0 PROVE \E k \in 1 .. e + 1 : k > a /\ r[k] = t[i]
  <2>1. CASE i = n + 1
    <3>1. e + 1 > a /\ e + 1 \in 1 .. e + 1 /\ r[e + 1] = t[i] BY <2>1
    <3> QED BY <3>1
  <2>2. CASE i \in 1 .. n
    <3>1. t[i] = s[i] BY <2>2
    <3>2. PICK k \in 1 .. e : k > a /\ q[k] = s[i] BY <2>2, <3>1, <1>9 DEF InOrder
    <3>3. r[k] = t[i] /\ k \in 1 .. e + 1 BY <3>1, <3>2, <1>q
    <3> QED BY <3>2, <3>3
  <2> QED BY <2>1, <2>2, <1>1
<1> QED BY <1>4, <1>5, <1>6, <1>7, <1>8, <1>9 DEF InOrder

\* The first line of s ends at f.
FirstLine(s, n, f) == f \in 1 .. n /\ s[f] # 0 /\ \A j \in 1 .. n : j < f => s[j] = 0

\* The first line is parsed.  If it is a request it is the next one of q.
LEMMA OrderFirst ==
  ASSUME NEW s, NEW n \in Nat, NEW q, NEW e \in Nat, NEW l \in Nat, NEW a \in Nat,
         InOrder(s, n, q, e, l, a),
         NEW f, FirstLine(s, n, f), s[f] > 0
  PROVE  a + 1 \in 1 .. e /\ q[a + 1] = s[f]
<1>f. f \in 1 .. n /\ \A j \in 1 .. n : j < f => s[j] = 0 BY DEF FirstLine
<1>s. \A i \in 1 .. n : s[i] \in Int BY DEF InOrder
<1>q. \A i \in 1 .. e : q[i] \in Nat /\ 0 < q[i] BY DEF InOrder
<1>2. PICK k \in 1 .. e : k > a /\ q[k] = s[f] BY <1>f DEF InOrder
<1>3. a + 1 \in 1 .. e /\ a + 1 > a BY <1>2
<1>4. ASSUME k # a + 1 PROVE FALSE
  <2>1. q[a + 1] < q[k] BY <1>2, <1>3, <1>4 DEF InOrder
  <2>2. PICK j \in 1 .. n : s[j] = q[a + 1] BY <1>3 DEF InOrder
  <2>3. q[a + 1] \in Nat /\ 0 < q[a + 1] BY <1>3, <1>q
  <2>4. ~ (j < f) /\ j # f /\ s[j] # 0 /\ s[f] # 0 
    <3>1. s[j] # 0 BY <2>2, <2>3
    <3>2. s[j] # s[f] BY <2>1, <2>2, <1>2, <1>q
    <3>3. s[f] # 0 BY <1>f, <1>s
    <3> QED BY <3>1, <3>2, <3>3, <1>f
  <2>5. f < j BY <2>4, <1>f
  <2>6. Mag(s[f]) < Mag(s[j]) BY <2>4, <2>5, <1>f DEF InOrder
  <2>7. Mag(s[f]) = s[f] /\ Mag(s[j]) = s[j] BY <2>2, <2>3, <1>f, <1>s DEF Mag
  <2> QED BY <2>1, <2>2, <2>6, <2>7, <1>2, <1>3, <1>f, <1>q, <1>s
<1> QED BY <1>2, <1>3, <1>4

\* The line at f of s is the next request of q.
IsNext(s, f, q, e, a) == a + 1 \in 1 .. e /\ q[a + 1] = s[f]

LEMMA FirstIsNext ==
  ASSUME NEW s, NEW n \in Nat, NEW q, NEW e \in Nat, NEW l \in Nat, NEW a \in Nat,
         InOrder(s, n, q, e, l, a),
         NEW f, FirstLine(s, n, f), s[f] > 0
  PROVE  IsNext(s, f, q, e, a)
BY OrderFirst DEF IsNext

LEMMA OrderDrop ==
  ASSUME NEW s, NEW n \in Nat, NEW q, NEW e \in Nat, NEW l \in Nat, NEW a \in Nat,
         InOrder(s, n, q, e, l, a),
         NEW f, FirstLine(s, n, f), NEW t, NEW r \in Nat, r = n - f, \A j \in 1 .. r : t[j] = s[f + j],
         NEW b \in Nat, b = IF s[f] > 0 THEN a + 1 ELSE a
  PROVE  InOrder(t, r, q, e, l, b)
<1>f. f \in 1 .. n /\ s[f] # 0 /\ \A j \in 1 .. n : j < f => s[j] = 0 BY DEF FirstLine
<1>s. \A i \in 1 .. n : s[i] \in Int BY DEF InOrder
<1>q. \A i \in 1 .. e : q[i] \in Nat /\ 0 < q[i] BY DEF InOrder
<1>3. \A j \in 1 .. r : f + j \in 1 .. n /\ f < f + j /\ t[j] = s[f + j] BY <1>f
<1>4. \A i, j \in 1 .. r : i < j /\ t[i] # 0 /\ t[j] # 0 => Mag(t[i]) < Mag(t[j])
  <2>1. \A i, j \in 1 .. r : i < j => f + i < f + j BY <1>f
  <2> QED BY <2>1, <1>3 DEF InOrder
<1>5. \A i \in 1 .. r : t[i] \in Int /\ Mag(t[i]) <= l
  BY <1>3 DEF InOrder
<1>6. ASSUME NEW k \in 1 .. e, k > b PROVE \E i \in 1 .. r : t[i] = q[k]
  <2>1. k > a BY <1>6
  <2>2. PICK j \in 1 .. n : s[j] = q[k] BY <2>1 DEF InOrder
  <2>3. q[k] \in Nat /\ 0 < q[k] BY <1>q
  <2>4. ~ (j < f) BY <2>2, <2>3, <1>f
  <2>5. j # f
    <3> SUFFICES ASSUME j = f PROVE FALSE OBVIOUS
    <3>1. s[f] > 0 BY <2>2, <2>3
    <3>2. a + 1 \in 1 .. e /\ q[a + 1] = s[f] BY <3>1, OrderFirst
    <3>3. a + 1 < k BY <3>1, <1>6
    <3>4. q[a + 1] < q[k] BY <3>2, <3>3 DEF InOrder
    <3> QED BY <3>2, <3>4, <2>2, <1>q
  <2>6. j - f \in 1 .. r /\ f + (j - f) = j BY <2>4, <2>5, <1>f
  <2>7. t[j - f] = q[k] BY <2>2, <2>6, <1>3
  <2> QED BY <2>6, <2>7
<1>7. ASSUME NEW i \in 1 .. r, t[i] > 0 PROVE \E k \in 1 .. e : k > b /\ q[k] = t[i]
  <2>1. f + i \in 1 .. n /\ f < f + i /\ t[i] = s[f + i] BY <1>3
  <2>2. PICK k \in 1 .. e : k > a /\ q[k] = s[f + i] BY <2>1, <1>7 DEF InOrder
  <2>3. CASE s[f] > 0
    <3>1. q[a + 1] = s[f] BY <2>3, OrderFirst
    <3>2. s[f + i] # 0 /\ s[f] \in Int /\ s[f + i] \in Int BY <2>1, <1>7, <1>f, <1>s
    <3>3. Mag(s[f]) < Mag(s[f + i]) BY <2>1, <3>2, <1>f DEF InOrder
    <3>4. s[f] # s[f + i] BY <3>2, <3>3 DEF Mag
    <3>5. k # a + 1 BY <2>2, <3>1, <3>4
    <3> QED BY <2>1, <2>2, <2>3, <3>5
  <2>4. CASE ~ (s[f] > 0) BY <2>1, <2>2, <2>4
  <2> QED BY <2>3, <2>4
<1>8. /\ \A k \in 1 .. e : q[k] \in Nat /\ 0 < q[k] /\ q[k] <= l
      /\ \A k, m \in 1 .. e : k < m => q[k] < q[m]
  BY DEF InOrder
<1> QED BY <1>4, <1>5, <1>6, <1>7, <1>8 DEF InOrder

----------------------------------------------------------------------------
(* Answers in the order of the requests *)

\* What the client has sent and the server has not yet parsed.
Ahead == buf \o net

\* Place i of what was written belongs to this answer.
AnswerOf(i) == (i - 1) \div ReplyLen + 1

\* All that was written are answers.
AllAnswers ==
  \A i \in 1 .. Len(wrote) : AnswerOf(i) <= Len(asked) /\ wrote[i] = asked[AnswerOf(i)]

\* p units of the answer in wbuf have been written.
Written(p) ==
  \/ msgs = <<>> /\ msgcurr = 1 /\ p = 0
  \/ /\ Len(msgs) = 2
     /\ \/ msgcurr = 1 /\ p = Mtu - msgs[1] /\ msgs[2] = ReplyLen - Mtu
        \/ msgcurr = 2 /\ msgs[1] = 0 /\ p = ReplyLen - msgs[2]

\* The server has answered c requests in full, and is at the next one while it
\* writes.
At(c, p) ==
  /\ Len(wrote) = c * ReplyLen + p
  /\ IF state = "write" THEN c < Len(asked) /\ reply = asked[c + 1] /\ Written(p) ELSE p = 0
  /\ InOrder(Ahead, Len(Ahead), asked, Len(asked), lines, IF state = "write" THEN c + 1 ELSE c)

\* The server is about to say that it is out of memory.
Dying == state = "write" /\ go = "closing"

\* That is said once.
SaidOnce ==
  /\ reply = 0
  /\ \/ msgs \in {<<>>, <<1>>} /\ msgcurr = 1 /\ AllAnswers
     \/ Len(msgs) = 1 /\ msgs[1] = 0

\* What is said at last, after answers.
Answers ==
  /\ AnswersInOrder
  /\ Dying => SaidOnce
  /\ ~Dying /\ ~Lost => AllAnswers /\ \E c \in 0 .. Len(asked), p \in 0 .. ReplyLen : At(c, p)

Typed == ControlType /\ CounterType /\ InputType /\ OutputType

LEMMA InitTyped == Init => Typed
BY InitControl, InitCounter, InitInput, InitOutput DEF Typed

LEMMA NextTyped == Typed /\ [Next]_vars => Typed'
BY NextControl, NextCounter, NextInput, NextOutput DEF Typed

LEMMA TypedLengths ==
  ASSUME Typed
  PROVE  /\ Len(wrote) \in Nat /\ DOMAIN wrote = 1 .. Len(wrote)
         /\ Len(asked) \in Nat /\ Len(Ahead) \in Nat
         /\ buf \in Seq(Int) /\ net \in Seq(Int) /\ asked \in Seq(Nat) /\ wrote \in Seq(Nat)
         /\ lines \in Nat /\ ReplyLen \in Nat /\ ReplyLen > 0
<1>1. buf \in Seq(Int) /\ net \in Seq(Int) /\ asked \in Seq(Nat) /\ lines \in Nat
  BY DEF Typed, InputType
<1>2. wrote \in Seq(Nat) BY DEF Typed, OutputType
<1>3. Ahead \in Seq(Int) BY <1>1, ConcatProperties DEF Ahead
<1>4. ReplyLen \in Nat /\ ReplyLen > 0 BY ReplyAssumption
<1> QED BY <1>1, <1>2, <1>3, <1>4, LenProperties

LEMMA AllInOrder == Typed /\ AllAnswers => AnswersInOrder
<1> SUFFICES ASSUME Typed, AllAnswers, NEW i \in DOMAIN wrote
             PROVE  AnswerOf(i) <= Len(asked) /\ wrote[i] = asked[AnswerOf(i)]
  BY DEF AnswersInOrder, AnswerOf
<1> QED BY TypedLengths DEF AllAnswers

\* Steps that leave alone what the invariant is about.
LEMMA AnswersQuiet ==
  ASSUME Answers, UNCHANGED <<state, buf, net, asked, lines, wrote, msgs, msgcurr, reply, go>>
  PROVE  Answers'
BY DEF Answers, AnswersInOrder, Dying, SaidOnce, Lost, AllAnswers, AnswerOf, At, Written, Ahead

\* Steps outside conn_write that read, parse nothing and answer nothing.
LEMMA AnswersFrame ==
  ASSUME Answers, state # "write", state' # "write", Lost => Lost',
         UNCHANGED <<wrote, asked, lines, Ahead>>
  PROVE  Answers'
<1>1. AnswersInOrder' /\ (AllAnswers => AllAnswers')
  BY DEF Answers, AnswersInOrder, AllAnswers, AnswerOf
<1>2. ASSUME NEW c, NEW p, At(c, p) PROVE At(c, p)'
  BY <1>2 DEF At
<1>3. ~Dying /\ ~Dying' BY DEF Dying
<1> QED BY <1>1, <1>2, <1>3 DEF Answers

LEMMA AnswersReuse == Typed /\ Reuse => Answers'
<1> SUFFICES ASSUME Typed, Reuse PROVE Answers' OBVIOUS
<1>1. /\ state' = "new_cmd" /\ buf' = <<>> /\ net' = <<>> /\ asked' = <<>> /\ wrote' = <<>>
  BY DEF Reuse, NewConn, Goto
<1>2. Ahead' = <<>> /\ Len(<<>>) = 0 /\ 1 .. 0 = {}
  BY <1>1, EmptySeq, ConcatEmptySeq DEF Ahead
<1>3. AnswersInOrder' /\ AllAnswers'
  BY <1>1, <1>2 DEF AnswersInOrder, AllAnswers
<1>4. At(0, 0)'
  <2>1. InOrder(<<>>, 0, <<>>, 0, lines', 0) BY <1>2 DEF InOrder
  <2>2. 0 = 0 * ReplyLen + 0 BY ReplyAssumption
  <2> QED BY <1>1, <1>2, <2>1, <2>2 DEF At
<1>5. 0 \in 0 .. Len(asked)' /\ 0 \in 0 .. ReplyLen
  BY <1>1, <1>2, ReplyAssumption
<1>6. ~Dying' BY <1>1 DEF Dying
<1> QED BY <1>3, <1>4, <1>5, <1>6 DEF Answers

\* What is said for lack of memory in the middle of try_read_network.
LEMMA AnswersGrow == Typed /\ Answers /\ Grow => Answers'
<1> SUFFICES ASSUME Typed, Answers, Grow PROVE Answers' OBVIOUS
<1>1. state = "read" /\ UNCHANGED <<wrote, asked, lines, net>>
  BY DEF Grow, In, client, ghost
<1>2. CASE state' = "read" /\ buf' = buf
  BY <1>1, <1>2, AnswersFrame DEF Ahead, Lost
<1>3. CASE state' = "aborted" /\ buf' = buf
  BY <1>1, <1>3, AnswersFrame DEF Ahead, Lost
<1>4. CASE state' = "write" /\ go' = "closing" /\ reply' = 0 /\ msgs' = <<>> /\ msgcurr' = 1
  <2>1. AllAnswers BY <1>1 DEF Answers, Dying, Lost
  <2>2. AllAnswers' BY <2>1, <1>1 DEF AllAnswers, AnswerOf
  <2>3. AnswersInOrder' BY <1>1 DEF Answers, AnswersInOrder
  <2> QED BY <2>2, <2>3, <1>4 DEF Answers, Dying, SaidOnce
<1>5. \/ state' = state /\ buf' = buf
      \/ state' = "write" /\ go' = "closing" /\ reply' = 0 /\ msgs' = <<>> /\ msgcurr' = 1
      \/ state' = "aborted" /\ buf' = buf
  BY DEF Grow, OutString, Goto
<1> QED BY <1>1, <1>2, <1>3, <1>4, <1>5

LEMMA SplitSeq ==
  ASSUME NEW S, NEW s \in Seq(S), NEW n \in 0 .. Len(s)
  PROVE  SubSeq(s, 1, n) \o SubSeq(s, n + 1, Len(s)) = s
<1>1. Len(s) \in Nat BY LenProperties
<1>2. 1 \in 1 .. Len(s) + 1 /\ n \in 1 - 1 .. Len(s) /\ Len(s) \in n .. Len(s)
  BY <1>1
<1>3. SubSeq(s, 1, n) \o SubSeq(s, n + 1, Len(s)) = SubSeq(s, 1, Len(s))
  BY <1>2, ConcatAdjacentSubSeq, Zenon
<1> QED BY <1>3, SubSeqFull, Zenon

\* What is read goes from the socket to the buffer.
LEMMA AnswersRead == Typed /\ Answers /\ ReadData => Answers'
<1> SUFFICES ASSUME Typed, Answers, ReadData PROVE Answers' OBVIOUS
<1>1. state = "read" /\ state' \in {"read", "parse_cmd"} /\ UNCHANGED <<wrote, asked, lines>>
  BY DEF ReadData, In, EndRead, Goto, ghost
<1> DEFINE n == Minimum(Avail, Len(net))
<1>2. buf \in Seq(Int) /\ net \in Seq(Int) /\ rsize \in Nat /\ Len(buf) <= rsize
  BY DEF Typed, InputType
<1>3. n \in 0 .. Len(net) BY <1>2 DEF Minimum, Avail
<1>4. buf' = buf \o SubSeq(net, 1, n) /\ net' = SubSeq(net, n + 1, Len(net))
  BY DEF ReadData
<1> HIDE DEF n
<1>5. SubSeq(net, 1, n) \o SubSeq(net, n + 1, Len(net)) = net
  BY <1>2, <1>3, SplitSeq, Zenon
<1>6. SubSeq(net, 1, n) \in Seq(Int) /\ SubSeq(net, n + 1, Len(net)) \in Seq(Int)
  BY <1>2, <1>3, SubSeqProperties
<1>7. Ahead' = Ahead
  <2>1. Ahead' = (buf \o SubSeq(net, 1, n)) \o SubSeq(net, n + 1, Len(net))
    BY <1>4 DEF Ahead
  <2>2. (buf \o SubSeq(net, 1, n)) \o SubSeq(net, n + 1, Len(net))
          = buf \o (SubSeq(net, 1, n) \o SubSeq(net, n + 1, Len(net)))
    <3>1. PICK x \in Seq(Int), y \in Seq(Int) :
            x = SubSeq(net, 1, n) /\ y = SubSeq(net, n + 1, Len(net))
      BY <1>6, Zenon
    <3>2. (buf \o x) \o y = buf \o (x \o y)
      BY <1>2, ConcatAssociative, SMTT(30)
    <3> QED BY <3>1, <3>2, Zenon
  <2> QED BY <2>1, <2>2, <1>5, Zenon DEF Ahead
<1> QED BY <1>1, <1>7, AnswersFrame DEF Lost

LEMMA AppendBehind ==
  ASSUME NEW s \in Seq(Int), NEW t \in Seq(Int), NEW u \in Int, NEW n \in Nat, n = Len(s \o t)
  PROVE  /\ Len(s \o Append(t, u)) = n + 1 /\ (s \o Append(t, u))[n + 1] = u
         /\ \A i \in 1 .. n : (s \o Append(t, u))[i] = (s \o t)[i]
<1>1. PICK a \in Nat, b \in Nat : a = Len(s) /\ b = Len(t) BY LenProperties
<1>2. n = a + b BY <1>1, ConcatProperties
<1>3. PICK v \in Seq(Int) : v = Append(t, u) BY AppendProperties
<1>4. Len(v) = b + 1 /\ v[b + 1] = u /\ \A i \in 1 .. b : v[i] = t[i]
  BY <1>1, <1>3, AppendProperties
<1>5. /\ Len(s \o v) = a + (b + 1)
      /\ \A i \in 1 .. a + (b + 1) : (s \o v)[i] = IF i <= a THEN s[i] ELSE v[i - a]
  <2>1. /\ Len(s \o v) = Len(s) + Len(v)
        /\ \A i \in 1 .. Len(s) + Len(v) : (s \o v)[i] = IF i <= Len(s) THEN s[i] ELSE v[i - Len(s)]
    BY ConcatProperties
  <2> QED BY <2>1, <1>1, <1>4
<1>6. \A i \in 1 .. a + b : (s \o t)[i] = IF i <= a THEN s[i] ELSE t[i - a]
  BY <1>1, ConcatProperties
<1>7. (s \o v)[n + 1] = u
  <2>1. n + 1 \in 1 .. a + (b + 1) /\ ~ (n + 1 <= a) /\ (n + 1) - a = b + 1 BY <1>2
  <2> QED BY <2>1, <1>4, <1>5
<1>8. ASSUME NEW i \in 1 .. n PROVE (s \o v)[i] = (s \o t)[i]
  <2>1. i \in 1 .. a + (b + 1) /\ i \in 1 .. a + b BY <1>2
  <2>2. ~ (i <= a) => i - a \in 1 .. b BY <1>2
  <2> QED BY <2>1, <2>2, <1>4, <1>5, <1>6
<1> QED BY <1>2, <1>3, <1>5, <1>7, <1>8

LEMMA FrontOfConcat ==
  ASSUME NEW s \in Seq(Int), NEW t \in Seq(Int), NEW n \in Nat, n = Len(s \o t),
         NEW f \in 1 .. Len(s)
  PROVE  /\ f \in 1 .. n /\ (s \o t)[f] = s[f]
         /\ \A j \in 1 .. n : j < f => (s \o t)[j] = s[j] /\ j \in 1 .. Len(s)
<1>1. PICK a \in Nat, b \in Nat : a = Len(s) /\ b = Len(t) BY LenProperties
<1>2. n = a + b BY <1>1, ConcatProperties
<1>3. \A i \in 1 .. a + b : (s \o t)[i] = IF i <= a THEN s[i] ELSE t[i - a]
  BY <1>1, ConcatProperties
<1>4. f \in 1 .. a BY <1>1
<1> QED BY <1>1, <1>2, <1>3, <1>4

\* r is s without its first f elements.
IsRest(r, s, f) ==
  /\ Len(r) \in Nat /\ Len(r) = Len(s) - f
  /\ \A j \in 1 .. Len(r) : r[j] = s[f + j]

LEMMA DropOfConcat ==
  ASSUME NEW s \in Seq(Int), NEW t \in Seq(Int), NEW f \in 1 .. Len(s)
  PROVE  IsRest(SubSeq(s, f + 1, Len(s)) \o t, s \o t, f)
<1>n. PICK n \in Nat : n = Len(s \o t) BY ConcatProperties, LenProperties
<1>r. PICK r : r = SubSeq(s, f + 1, Len(s)) \o t OBVIOUS
<1>1. PICK a \in Nat, b \in Nat : a = Len(s) /\ b = Len(t) BY LenProperties
<1>2. n = a + b BY <1>n, <1>1, ConcatProperties
<1>3. \A i \in 1 .. a + b : (s \o t)[i] = IF i <= a THEN s[i] ELSE t[i - a]
  BY <1>1, ConcatProperties
<1>4. f \in 1 .. a BY <1>1
<1>5. PICK d \in Nat : d = a - f BY <1>4
<1>6. PICK v \in Seq(Int) : v = SubSeq(s, f + 1, a) /\ Len(v) = d
                            /\ \A i \in 1 .. d : v[i] = s[f + i]
  <2>1. f + 1 \in 1 .. Len(s) + 1 /\ a \in 0 .. Len(s) BY <1>1, <1>4
  <2>2. /\ SubSeq(s, f + 1, a) \in Seq(Int)
        /\ Len(SubSeq(s, f + 1, a)) = IF f + 1 <= a THEN a - (f + 1) + 1 ELSE 0
        /\ \A i \in 1 .. a - (f + 1) + 1 : SubSeq(s, f + 1, a)[i] = s[f + 1 + i - 1]
    BY <2>1, SubSeqProperties
  <2>3. Len(SubSeq(s, f + 1, a)) = d BY <2>2, <1>4, <1>5
  <2>4. \A i \in 1 .. d : i \in 1 .. a - (f + 1) + 1 /\ f + 1 + i - 1 = f + i BY <1>4, <1>5
  <2>5. \A i \in 1 .. d : SubSeq(s, f + 1, a)[i] = s[f + i] BY <2>2, <2>4
  <2> QED BY <2>2, <2>3, <2>5
<1>7. r = v \o t BY <1>r, <1>1, <1>6
<1>8. /\ Len(r) = d + b
      /\ \A i \in 1 .. d + b : r[i] = IF i <= d THEN v[i] ELSE t[i - d]
  <2>1. /\ Len(v \o t) = Len(v) + Len(t)
        /\ \A i \in 1 .. Len(v) + Len(t) : (v \o t)[i] = IF i <= Len(v) THEN v[i] ELSE t[i - Len(v)]
    BY ConcatProperties
  <2>2. Len(v) = d /\ Len(t) = b BY <1>1, <1>6
  <2> QED BY <2>1, <2>2, <1>7
<1>9. ASSUME NEW j \in 1 .. d + b PROVE r[j] = (s \o t)[f + j]
  <2>1. f + j \in 1 .. a + b /\ (f + j <= a <=> j <= d) /\ (f + j) - a = j - d
    BY <1>4, <1>5
  <2>2. j <= d => j \in 1 .. d OBVIOUS
  <2> QED BY <2>1, <2>2, <1>3, <1>6, <1>8
<1>10. d + b = n - f BY <1>2, <1>4, <1>5
<1>11. d + b \in Nat OBVIOUS
<1>12. Len(r) = d + b BY <1>8, Zenon
<1>13. /\ Len(r) \in Nat /\ Len(r) = n - f
       /\ \A j \in 1 .. Len(r) : r[j] = (s \o t)[f + j]
  BY <1>9, <1>10, <1>11, <1>12, Zenon
<1> QED BY <1>n, <1>r, <1>13, Zenon DEF IsRest

LEMMA AnswerOfType ==
  ASSUME NEW n \in Nat, NEW i \in 1 .. n
  PROVE  AnswerOf(i) \in Int /\ AnswerOf(i) >= 1
<1>1. ReplyLen \in Nat \ {0} BY ReplyAssumption
<1>2. i - 1 \in Nat OBVIOUS
<1>3. (i - 1) \div ReplyLen \in Nat BY <1>1, <1>2
<1> QED BY <1>3 DEF AnswerOf

\* A client that sends on gives the server something more to parse.
LEMMA AnswersSend == Typed /\ Answers /\ Send => Answers'
<1> SUFFICES ASSUME Typed, Answers, Send PROVE Answers' OBVIOUS
<1>1. UNCHANGED <<state, buf, wrote, msgs, msgcurr, reply, go>>
  BY DEF Send, inbuf, out, ghost
<1>2. PICK u \in {0, lines + 1, -(lines + 1)} :
        /\ net' = Append(net, u)
        /\ lines' = IF u = 0 THEN lines ELSE lines + 1
        /\ asked' = IF u > 0 THEN Append(asked, u) ELSE asked
  BY DEF Send
<1>3. /\ lines \in Nat /\ buf \in Seq(Int) /\ net \in Seq(Int) /\ asked \in Seq(Nat)
      /\ Len(asked) \in Nat /\ u \in Int
  BY <1>2, TypedLengths
<1>4. PICK n \in Nat : n = Len(Ahead) BY TypedLengths
<1>5. Len(Ahead)' = n + 1 /\ Ahead'[n + 1] = u /\ \A i \in 1 .. n : Ahead'[i] = Ahead[i]
  BY <1>1, <1>2, <1>3, <1>4, AppendBehind DEF Ahead
<1>6. PICK e \in Nat : e = Len(asked) BY <1>3
<1>7. /\ \A k \in 1 .. e : asked'[k] = asked[k]
      /\ IF u > 0 THEN Len(asked') = e + 1 /\ asked'[e + 1] = u ELSE asked' = asked
  BY <1>2, <1>3, <1>6, AppendProperties
<1>8. Len(asked') \in Nat /\ e <= Len(asked') BY <1>6, <1>7
<1>w. AllAnswers => AllAnswers'
  <2> SUFFICES ASSUME AllAnswers, NEW i \in 1 .. Len(wrote)
               PROVE  AnswerOf(i) <= Len(asked') /\ wrote[i] = asked'[AnswerOf(i)]
    BY <1>1 DEF AllAnswers, AnswerOf
  <2>1. AnswerOf(i) \in 1 .. e
    <3>1. AnswerOf(i) \in Int /\ AnswerOf(i) >= 1
      BY TypedLengths, AnswerOfType
    <3> QED BY <3>1, <1>6 DEF AllAnswers
  <2> QED BY <2>1, <1>6, <1>7, <1>8 DEF AllAnswers
<1>o. AnswersInOrder'
  <2> SUFFICES ASSUME NEW i \in DOMAIN wrote, ~ (wrote[i] = 0 /\ i = Len(wrote))
               PROVE  AnswerOf(i) <= Len(asked') /\ wrote[i] = asked'[AnswerOf(i)]
    BY <1>1 DEF AnswersInOrder, AnswerOf
  <2>0. i \in 1 .. Len(wrote) BY TypedLengths
  <2>1. AnswerOf(i) <= Len(asked) /\ wrote[i] = asked[AnswerOf(i)]
    BY DEF Answers, AnswersInOrder, AnswerOf
  <2>2. AnswerOf(i) \in 1 .. e
    <3>1. AnswerOf(i) \in Int /\ AnswerOf(i) >= 1
      BY <2>0, TypedLengths, AnswerOfType
    <3> QED BY <3>1, <2>1, <1>6
  <2> QED BY <2>1, <2>2, <1>6, <1>7, <1>8
<1>9. ASSUME NEW c \in 0 .. e, NEW p \in 0 .. ReplyLen, At(c, p) PROVE At(c, p)'
  <2>1. PICK a \in Nat : a = IF state = "write" THEN c + 1 ELSE c OBVIOUS
  <2>2. InOrder(Ahead, n, asked, e, lines, a) /\ a <= e
    BY <2>1, <1>4, <1>6, <1>9 DEF At
  <2>3. InOrder(Ahead', n + 1, asked', Len(asked'), lines', a)
    <3>1. CASE u = 0
      <4>1. lines' = lines /\ asked' = asked BY <1>2, <3>1
      <4> QED BY <4>1, <2>2, <1>3, <1>5, <1>6, <3>1, OrderSendByte
    <3>2. CASE u = -(lines + 1)
      <4>1. lines' = lines + 1 /\ asked' = asked BY <1>2, <1>3, <3>2
      <4> QED BY <4>1, <2>2, <1>3, <1>5, <1>6, <3>2, OrderSendLine
    <3>3. CASE u = lines + 1
      <4>1. lines' = lines + 1 /\ u > 0 BY <1>2, <1>3, <3>3
      <4>2. /\ Len(asked') = e + 1 /\ asked'[e + 1] = lines + 1
            /\ Ahead'[n + 1] = lines + 1
        BY <4>1, <1>5, <1>7, <3>3
      <4>3. InOrder(Ahead', n + 1, asked', e + 1, lines + 1, a)
        BY <4>2, <2>2, <1>3, <1>5, <1>7, OrderSendRequest, Zenon
      <4> QED BY <4>1, <4>2, <4>3
    <3> QED BY <1>2, <3>1, <3>2, <3>3
  <2>4. state = "write" => c < Len(asked') /\ reply = asked'[c + 1] /\ Written(p)
    BY <1>6, <1>7, <1>8, <1>9 DEF At
  <2>5. Written(p)' <=> Written(p) BY <1>1 DEF Written
  <2> QED BY <2>1, <2>3, <2>4, <2>5, <1>1, <1>5, <1>9 DEF At
<1>10. ~Dying' /\ ~Lost' => AllAnswers /\ \E c \in 0 .. e, p \in 0 .. ReplyLen : At(c, p)
  BY <1>1, <1>6 DEF Answers, Dying, Lost
<1>11. \A c \in 0 .. e : c \in 0 .. Len(asked') BY <1>8
<1>12. ~Dying' /\ ~Lost' => \E c \in 0 .. Len(asked'), p \in 0 .. ReplyLen : At(c, p)'
  BY <1>9, <1>10, <1>11
<1>13. Dying' => SaidOnce'
  BY <1>1, <1>w DEF Answers, Dying, SaidOnce
<1> QED BY <1>w, <1>o, <1>10, <1>12, <1>13 DEF Answers

\* The first line of the buffer is parsed: a request is the next one to answer.
LEMMA AnswersCommand == Typed /\ Answers /\ Command => Answers'
<1> SUFFICES ASSUME Typed, Answers, Command PROVE Answers' OBVIOUS
<1>1. PICK f \in Newlines :
        /\ \A j \in Newlines : f <= j
        /\ IF buf[f] > 0
           THEN OutString(buf[f], "new_cmd") /\ handled' = handled + 1
           ELSE msgs' = <<>> /\ msgcurr' = 1 /\ UNCHANGED <<state, reply, go, handled>>
        /\ Consume(f)
  BY DEF Command
<1>2. state = "parse_cmd" /\ UNCHANGED <<net, asked, lines, wrote>>
  BY DEF Command, In, client
<1>3. /\ buf \in Seq(Int) /\ net \in Seq(Int) /\ Len(asked) \in Nat /\ DOMAIN buf = 1 .. Len(buf)
      /\ lines \in Nat
  BY TypedLengths, LenProperties
<1>4. AllAnswers /\ \E c \in 0 .. Len(asked), p \in 0 .. ReplyLen : At(c, p)
  BY <1>2 DEF Answers, Dying, Lost
<1>5. PICK c \in 0 .. Len(asked) : Len(wrote) = c * ReplyLen + 0
        /\ InOrder(Ahead, Len(Ahead), asked, Len(asked), lines, c)
  BY <1>2, <1>4 DEF At
<1>6. PICK n \in Nat : n = Len(Ahead) BY TypedLengths
<1>7. PICK e \in Nat : e = Len(asked) BY <1>3
<1>8. /\ f \in 1 .. Len(buf) /\ buf[f] # 0
      /\ \A j \in 1 .. Len(buf) : j < f => buf[j] = 0
  <2>1. f \in 1 .. Len(buf) /\ buf[f] # 0 BY <1>1, <1>3 DEF Newlines
  <2>2. \A j \in 1 .. Len(buf) : buf[j] # 0 => j \in Newlines BY <1>3 DEF Newlines
  <2> QED BY <2>1, <2>2, <1>1, <1>3
<1>9. buf' = SubSeq(buf, f + 1, Len(buf)) BY <1>1 DEF Consume
<1>10. /\ f \in 1 .. n /\ Ahead[f] = buf[f]
       /\ \A j \in 1 .. n : j < f => Ahead[j] = 0
       /\ Len(Ahead)' \in Nat /\ Len(Ahead)' = n - f
       /\ \A j \in 1 .. Len(Ahead)' : Ahead'[j] = Ahead[f + j]
  <2>1. /\ f \in 1 .. n /\ Ahead[f] = buf[f]
        /\ \A j \in 1 .. n : j < f => Ahead[j] = buf[j] /\ j \in 1 .. Len(buf)
    BY <1>3, <1>6, <1>8, FrontOfConcat DEF Ahead
  <2>2. /\ Len(Ahead)' \in Nat /\ Len(Ahead)' = n - f
        /\ \A j \in 1 .. Len(Ahead)' : Ahead'[j] = Ahead[f + j]
    <3>1. PICK r : r = SubSeq(buf, f + 1, Len(buf)) \o net OBVIOUS
    <3>2. Ahead' = r BY <3>1, <1>2, <1>9 DEF Ahead
    <3>3. /\ Len(r) \in Nat /\ Len(r) = n - f
          /\ \A j \in 1 .. Len(r) : r[j] = (buf \o net)[f + j]
      <4>1. buf \in Seq(Int) /\ net \in Seq(Int) /\ f \in 1 .. Len(buf) BY <1>3, <1>8
      <4>2. IsRest(SubSeq(buf, f + 1, Len(buf)) \o net, buf \o net, f)
        BY <4>1, DropOfConcat, Zenon
      <4> QED BY <4>2, <3>1, <1>6, Zenon DEF IsRest, Ahead
    <3> QED BY <3>2, <3>3 DEF Ahead
  <2> QED BY <2>1, <2>2, <1>8
<1>11. AllAnswers' /\ AnswersInOrder'
  <2>1. AllAnswers' BY <1>2, <1>4 DEF AllAnswers, AnswerOf
  <2>2. AnswersInOrder' BY <1>2 DEF Answers, AnswersInOrder
  <2> QED BY <2>1, <2>2
<1>12. InOrder(Ahead', Len(Ahead)', asked', Len(asked)', lines', IF buf[f] > 0 THEN c + 1 ELSE c)
  <2>1. InOrder(Ahead, n, asked, e, lines, c) BY <1>5, <1>6, <1>7
  <2>2. c \in Nat BY <1>3
  <2>3. PICK r \in Nat : r = Len(Ahead)' BY <1>10
  <2>4. PICK b \in Nat : b = IF buf[f] > 0 THEN c + 1 ELSE c BY <2>2
  <2>5. InOrder(Ahead', r, asked, e, lines, b)
    <3>1. Ahead[f] # 0 /\ b = IF Ahead[f] > 0 THEN c + 1 ELSE c BY <2>4, <1>8, <1>10
    <3>2. /\ FirstLine(Ahead, n, f) /\ r = n - f
          /\ \A j \in 1 .. r : Ahead'[j] = Ahead[f + j]
      BY <2>3, <1>8, <1>10 DEF FirstLine
    <3> QED BY <3>1, <3>2, <2>1, <2>2, <1>3, OrderDrop
  <2> QED BY <2>3, <2>4, <2>5, <1>2, <1>7
<1>13. CASE buf[f] > 0
  <2>1. /\ state' = "write" /\ go' = "new_cmd" /\ reply' = buf[f] /\ msgs' = <<>> /\ msgcurr' = 1
    BY <1>1, <1>13 DEF OutString, Goto
  <2>2. c + 1 \in 1 .. e /\ asked[c + 1] = buf[f]
    <3>1. InOrder(Ahead, n, asked, e, lines, c) /\ c \in Nat BY <1>3, <1>5, <1>6, <1>7
    <3>2. FirstLine(Ahead, n, f) /\ Ahead[f] > 0 /\ Ahead[f] = buf[f]
      BY <1>8, <1>10, <1>13 DEF FirstLine
    <3>3. c + 1 \in 1 .. e /\ asked[c + 1] = Ahead[f]
      <4>1. lines \in Nat /\ n \in Nat /\ e \in Nat BY <1>3, <1>6, <1>7
      <4>2. InOrder(Ahead, n, asked, e, lines, c) /\ c \in Nat BY <3>1
      <4>3. FirstLine(Ahead, n, f) /\ Ahead[f] > 0 BY <3>2
      <4>4. IsNext(Ahead, f, asked, e, c) BY <4>1, <4>2, <4>3, FirstIsNext, Zenon
      <4> QED BY <4>4 DEF IsNext
    <3> QED BY <3>2, <3>3
  <2>3. At(c, 0)'
    <3>1. Len(wrote') = c * ReplyLen + 0 BY <1>2, <1>5
    <3>2. c < Len(asked') /\ reply' = asked'[c + 1] BY <2>1, <2>2, <1>2, <1>7
    <3>3. Written(0)' BY <2>1 DEF Written
    <3> QED BY <3>1, <3>2, <3>3, <2>1, <1>12, <1>13 DEF At
  <2>4. c \in 0 .. Len(asked)' /\ 0 \in 0 .. ReplyLen BY <1>2, TypedLengths
  <2> QED BY <2>1, <2>3, <2>4, <1>11 DEF Answers, Dying
<1>14. CASE ~ (buf[f] > 0)
  <2>1. state' = state BY <1>1, <1>14
  <2>2. At(c, 0)' BY <2>1, <1>2, <1>5, <1>12, <1>14 DEF At
  <2>3. c \in 0 .. Len(asked)' /\ 0 \in 0 .. ReplyLen BY <1>2, TypedLengths
  <2> QED BY <2>1, <2>2, <2>3, <1>2, <1>11 DEF Answers, Dying
<1> QED BY <1>13, <1>14

\* r is s and n times x behind it.
Extended(r, s, n, x) ==
  /\ Len(r) = Len(s) + n
  /\ \A i \in 1 .. Len(s) : r[i] = s[i]
  /\ \A i \in Len(s) + 1 .. Len(s) + n : r[i] = x

LEMMA Extends ==
  ASSUME NEW s \in Seq(Nat), NEW n \in Nat, NEW x \in Nat
  PROVE  Extended(s \o [i \in 1 .. n |-> x], s, n, x)
<1>1. PICK a \in Nat : a = Len(s) BY LenProperties
<1>2. PICK t : t = [i \in 1 .. n |-> x] OBVIOUS
<1>3. t \in Seq(Nat) /\ Len(t) = n /\ \A i \in 1 .. n : t[i] = x
  <2>1. t \in Seq(Nat) BY <1>2, IsASeq
  <2>2. DOMAIN t = 1 .. n /\ \A i \in 1 .. n : t[i] = x BY <1>2
  <2> QED BY <2>1, <2>2, LenProperties
<1>4. /\ Len(s \o t) = a + n
      /\ \A i \in 1 .. a + n : (s \o t)[i] = IF i <= a THEN s[i] ELSE t[i - a]
  <2>1. /\ Len(s \o t) = Len(s) + Len(t)
        /\ \A i \in 1 .. Len(s) + Len(t) : (s \o t)[i] = IF i <= Len(s) THEN s[i] ELSE t[i - Len(s)]
    BY <1>3, ConcatProperties
  <2> QED BY <2>1, <1>1, <1>3
<1>5. ASSUME NEW i \in a + 1 .. a + n PROVE (s \o t)[i] = x
  <2>1. i \in 1 .. a + n /\ ~ (i <= a) /\ i - a \in 1 .. n OBVIOUS
  <2> QED BY <2>1, <1>3, <1>4
<1>6. \A i \in 1 .. a : (s \o t)[i] = s[i] BY <1>4
<1> QED BY <1>1, <1>2, <1>4, <1>5, <1>6 DEF Extended

\* m is what is left of the two messages of an answer when p units of it have
\* been sent and the k-th is being sent.
Sending(m, k, p) ==
  /\ Len(m) = 2
  /\ \/ k = 1 /\ p = Mtu - m[1] /\ m[2] = ReplyLen - Mtu
     \/ k = 2 /\ m[1] = 0 /\ p = ReplyLen - m[2]

\* Where transmit begins.
LEMMA BeginsAt ==
  ASSUME Typed, reply > 0, NEW p \in 0 .. ReplyLen, Written(p)
  PROVE  /\ Len(Messages) = 2 /\ DOMAIN Messages = 1 .. 2
         /\ Current <= 2 => Sending(Messages, Current, p) /\ Messages[Current] # 0
         /\ Current > 2 => p = ReplyLen
<1>1. /\ Mtu \in Nat /\ Mtu # 0 /\ ReplyLen \in Nat /\ ReplyLen - Mtu # 0
      /\ Messages \in Seq(0 .. ReplyLen)
  BY ReplyAssumption, MessagesType DEF Typed
<1>2. CASE msgs = <<>> /\ msgcurr = 1 /\ p = 0
  <2>1. Messages = <<Mtu, ReplyLen - Mtu>> BY <1>2 DEF Messages, Split
  <2>2. Current = 1 BY <1>1, <1>2, <2>1 DEF Current
  <2> QED BY <1>1, <1>2, <2>1, <2>2 DEF Sending
<1>3. CASE /\ Len(msgs) = 2
           /\ \/ msgcurr = 1 /\ p = Mtu - msgs[1] /\ msgs[2] = ReplyLen - Mtu
              \/ msgcurr = 2 /\ msgs[1] = 0 /\ p = ReplyLen - msgs[2]
  <2>1. Messages = msgs BY <1>3, EmptySeq DEF Messages
  <2>2. /\ DOMAIN Messages = 1 .. 2 /\ Len(Messages) = 2
        /\ Messages[1] \in 0 .. ReplyLen /\ Messages[2] \in 0 .. ReplyLen
    BY <1>1, <1>3, <2>1, LenProperties, ElementOfSeq
  <2>3. CASE msgcurr = 1
    <3>1. Current = IF Messages[1] = 0 THEN 2 ELSE 1 BY <2>2, <2>3 DEF Current
    <3> QED BY <3>1, <1>1, <1>3, <2>1, <2>2, <2>3 DEF Sending
  <2>4. CASE msgcurr = 2
    <3>1. Current = IF Messages[2] = 0 THEN 3 ELSE 2 BY <2>2, <2>4 DEF Current
    <3> QED BY <3>1, <1>1, <1>3, <2>1, <2>2, <2>4 DEF Sending
  <2> QED BY <1>3, <2>3, <2>4
<1> QED BY <1>2, <1>3 DEF Written

\* An answer that is being written is that of a request.
LEMMA AtRequest ==
  ASSUME Typed, state = "write", NEW c \in 0 .. Len(asked), NEW p, At(c, p)
  PROVE  reply > 0 /\ c + 1 \in 1 .. Len(asked) /\ reply = asked[c + 1]
<1>1. c + 1 \in 1 .. Len(asked) /\ reply = asked[c + 1] BY TypedLengths DEF At
<1>2. asked[c + 1] > 0 BY <1>1 DEF At, InOrder
<1> QED BY <1>1, <1>2

\* sendmsg takes n units more of the answer to request c + 1.
LEMMA MoreOfAnswer ==
  ASSUME NEW c \in Nat, NEW p \in Nat, NEW n \in Nat, p + n <= ReplyLen,
         Len(wrote) = c * ReplyLen + p, c + 1 \in 1 .. Len(asked), reply = asked[c + 1],
         Extended(wrote', wrote, n, reply), asked' = asked, AllAnswers, Typed
  PROVE  AllAnswers' /\ Len(wrote') = c * ReplyLen + (p + n)
<1>0. ReplyLen \in Nat \ {0} BY ReplyAssumption
<1>1. PICK k \in Nat : k = c * ReplyLen BY <1>0
<1>2. PICK a \in Nat : a = Len(wrote) BY TypedLengths
<1>3. a = k + p BY <1>1, <1>2
<1>4. /\ Len(wrote') = a + n
      /\ \A i \in 1 .. a : wrote'[i] = wrote[i]
      /\ \A i \in a + 1 .. a + n : wrote'[i] = reply
  BY <1>2 DEF Extended
<1>5. ASSUME NEW i \in 1 .. a
      PROVE  AnswerOf(i) <= Len(asked) /\ wrote'[i] = asked[AnswerOf(i)]
  BY <1>2, <1>4 DEF AllAnswers
<1>6. ASSUME NEW i \in a + 1 .. a + n
      PROVE  AnswerOf(i) <= Len(asked) /\ wrote'[i] = asked[AnswerOf(i)]
  <2>1. PICK q \in 0 .. ReplyLen - 1 : i - 1 = k + q
    <3>1. i - 1 - k \in 0 .. ReplyLen - 1 /\ i - 1 = k + (i - 1 - k) BY <1>0, <1>3
    <3> QED BY <3>1
  <2>2. (c * ReplyLen + q) \div ReplyLen = c BY <1>0, DivOf
  <2>3. (i - 1) \div ReplyLen = c BY <2>1, <2>2, <1>1
  <2>4. AnswerOf(i) = c + 1 BY <2>3 DEF AnswerOf
  <2> QED BY <2>4, <1>4
<1>7. \A i \in 1 .. a + n : i \in 1 .. a \/ i \in a + 1 .. a + n OBVIOUS
<1>8. \A i \in 1 .. a + n : AnswerOf(i) <= Len(asked) /\ wrote'[i] = asked[AnswerOf(i)]
  BY <1>5, <1>6, <1>7
<1>9. AllAnswers' BY <1>4, <1>8 DEF AllAnswers, AnswerOf
<1>10. a + n = k + (p + n) BY <1>3
<1> QED BY <1>1, <1>4, <1>9, <1>10

\* Some or all of a message is sent.
LEMMA AnswersSome == Typed /\ Typed' /\ Answers /\ TransmitSome => Answers'
<1> SUFFICES ASSUME Typed, Typed', Answers, TransmitSome PROVE Answers' OBVIOUS
<1>1. PICK n : /\ n \in 1 .. Minimum(Messages[Current], Room - unread)
               /\ msgs' = Shortened(n) /\ wrote' = wrote \o [i \in 1 .. n |-> reply]
  BY DEF TransmitSome
<1>2. /\ state = "write" /\ state' = "write" /\ Current <= Len(Messages) /\ msgcurr' = Current
      /\ UNCHANGED <<buf, net, asked, lines, reply, go>>
  BY DEF TransmitSome, In, inbuf
<1>3. /\ Messages \in Seq(0 .. ReplyLen) /\ Len(Messages) \in 1 .. 2 /\ Current \in 1 .. 3
  BY MessagesType DEF Typed
<1>4. Current \in 1 .. Len(Messages) /\ Messages[Current] \in 0 .. ReplyLen
  <2>1. Current \in 1 .. Len(Messages) BY <1>2, <1>3
  <2> QED BY <1>3, <2>1, ElementOfSeq
<1>5. n \in 1 .. Messages[Current]
  <2>1. unread \in 0 .. Room BY DEF Typed, OutputType
  <2> QED BY <2>1, <1>1, <1>4, RoomAssumption DEF Minimum
<1>6. n \in Nat /\ reply \in Nat /\ wrote \in Seq(Nat)
  BY <1>4, <1>5 DEF Typed, OutputType
<1>7. Extended(wrote', wrote, n, reply) BY <1>1, <1>6, Extends
<1>8. DOMAIN Messages = 1 .. Len(Messages) BY <1>3, LenProperties
<1>9. msgs' = [Messages EXCEPT ![Current] = Messages[Current] - n] BY <1>1 DEF Shortened
<1>10. CASE Dying
  <2>1. reply = 0 BY <1>10 DEF Answers, SaidOnce
  <2>2. msgs \in {<<>>, <<1>>} /\ msgcurr = 1 /\ AllAnswers
    <3> SUFFICES ASSUME Len(msgs) = 1, msgs[1] = 0 PROVE FALSE BY <1>10 DEF Answers, SaidOnce
    <3>1. Messages = msgs BY EmptySeq DEF Messages
    <3>2. msgcurr \in 1 .. 3 BY DEF Typed, OutputType
    <3>3. Current > 1
      <4>1. Len(Messages) = 1 /\ Messages[1] = 0 BY <3>1
      <4>2. CASE msgcurr = 1
        <5>1. msgcurr <= Len(Messages) /\ Messages[msgcurr] = 0 BY <4>1, <4>2
        <5>2. Current = msgcurr + 1 BY <5>1 DEF Current
        <5> QED BY <5>2, <4>2
      <4>3. CASE msgcurr \in 2 .. 3
        <5>1. Current = msgcurr BY <4>1, <4>3 DEF Current
        <5> QED BY <5>1, <4>3
      <4> QED BY <3>2, <4>2, <4>3
    <3>4. Current <= 1 /\ Current \in Int
      <4>1. Len(Messages) = 1 BY <3>1
      <4> QED BY <4>1, <1>2, <1>3
    <3> QED BY <3>3, <3>4
  <2>3. Messages = <<1>> BY <2>1, <2>2 DEF Messages
  <2>4. Current = 1 BY <2>2, <2>3 DEF Current
  <2>5. n = 1 BY <2>3, <2>4, <1>5
  <2>6. Len(msgs') = 1 /\ msgs'[1] = 0
    <3>1. /\ DOMAIN Messages = 1 .. 1 /\ Messages[1] = 1 /\ Messages[Current] = 1
      BY <2>3, <2>4
    <3>2. DOMAIN msgs' = 1 .. 1 /\ msgs'[1] = 0 BY <3>1, <2>4, <2>5, <1>9
    <3>3. msgs' \in Seq(0 .. ReplyLen) BY DEF Typed, OutputType
    <3>4. PICK l \in Nat : l = Len(msgs') /\ DOMAIN msgs' = 1 .. l BY <3>3, LenProperties
    <3>5. l = 1
      <4>1. 1 \in 1 .. l /\ 2 \notin 1 .. l BY <3>2, <3>4
      <4> QED BY <4>1
    <3> QED BY <3>2, <3>4, <3>5
  <2>7. PICK a \in Nat : a = Len(wrote)
    <3>1. Len(wrote) \in Nat BY TypedLengths
    <3> QED BY <3>1
  <2>8. /\ Len(wrote') = a + 1 /\ wrote'[a + 1] = 0
        /\ \A i \in 1 .. a : wrote'[i] = wrote[i]
    BY <2>1, <2>5, <2>7, <1>7 DEF Extended
  <2>9. DOMAIN wrote' = 1 .. a + 1
    BY <2>8, LenProperties DEF Typed, OutputType
  <2>10. ASSUME NEW i \in 1 .. a + 1
         PROVE  \/ AnswerOf(i) <= Len(asked) /\ wrote'[i] = asked[AnswerOf(i)]
                \/ wrote'[i] = 0 /\ i = Len(wrote')
    <3>1. CASE i = a + 1 BY <3>1, <2>8
    <3>2. CASE i # a + 1
      <4>1. i \in 1 .. Len(wrote) /\ wrote'[i] = wrote[i] BY <3>2, <2>7, <2>8
      <4> QED BY <4>1, <2>2 DEF AllAnswers
    <3> QED BY <3>1, <3>2
  <2>11. AnswersInOrder' BY <2>9, <2>10, <1>2 DEF AnswersInOrder, AnswerOf
  <2>12. Dying' /\ SaidOnce' BY <2>1, <2>6, <1>2, <1>10 DEF Dying, SaidOnce
  <2> QED BY <2>11, <2>12 DEF Answers
<1>11. CASE ~Dying
  <2>1. PICK c \in 0 .. Len(asked), p \in 0 .. ReplyLen : At(c, p)
    BY <1>2, <1>11 DEF Answers, Lost
  <2>2. AllAnswers BY <1>2, <1>11 DEF Answers, Lost
  <2>3. reply > 0 /\ c + 1 \in 1 .. Len(asked) /\ reply = asked[c + 1] BY <2>1, <1>2, AtRequest
  <2>4. Len(wrote) = c * ReplyLen + p /\ Written(p) BY <2>1, <1>2 DEF At
  <2>5. Len(Messages) = 2 /\ Sending(Messages, Current, p) BY <2>3, <2>4, <1>2, BeginsAt
  <2>6. /\ c \in Nat /\ p \in Nat /\ Mtu \in Nat /\ Mtu # 0 /\ ReplyLen \in Nat /\ ReplyLen > Mtu
    BY <2>1, TypedLengths, ReplyAssumption
  <2>7. p + n \in 0 .. ReplyLen /\ Written(p + n)'
    <3>1. Len(msgs') = 2 /\ DOMAIN msgs' = 1 .. 2
      <4>1. DOMAIN msgs' = 1 .. 2 BY <1>8, <1>9, <2>5
      <4>2. msgs' \in Seq(0 .. ReplyLen) BY DEF Typed, OutputType
      <4> QED BY <4>1, <4>2, LenProperties
    <3>2. CASE Current = 1
      <4>1. p = Mtu - Messages[1] /\ Messages[2] = ReplyLen - Mtu BY <3>2, <2>5 DEF Sending
      <4>2. 1 \in DOMAIN Messages /\ 2 \in DOMAIN Messages BY <1>8, <2>5
      <4>3. msgs'[1] = Messages[1] - n /\ msgs'[2] = Messages[2] BY <4>2, <3>2, <1>9
      <4>4. PICK x \in 0 .. ReplyLen : x = Messages[1] BY <3>2, <1>4
      <4>5. n \in 1 .. x
        <5>1. Messages[Current] = x BY <4>4, <3>2, Zenon
        <5> QED BY <5>1, <1>5, Zenon
      <4>6. p + n = Mtu - (x - n) /\ p + n \in 0 .. ReplyLen BY <4>1, <4>4, <4>5, <2>6
      <4>7. msgs'[1] = x - n /\ msgs'[2] = ReplyLen - Mtu BY <4>1, <4>3, <4>4
      <4>8. msgcurr' = 1 BY <3>2, <1>2
      <4> QED BY <4>6, <4>7, <4>8, <3>1 DEF Written
    <3>3. CASE Current = 2
      <4>1. Messages[1] = 0 /\ p = ReplyLen - Messages[2] BY <3>3, <2>5 DEF Sending
      <4>2. 1 \in DOMAIN Messages /\ 2 \in DOMAIN Messages BY <1>8, <2>5
      <4>3. msgs'[1] = Messages[1] /\ msgs'[2] = Messages[2] - n BY <4>2, <3>3, <1>9
      <4>4. PICK x \in 0 .. ReplyLen : x = Messages[2] BY <3>3, <1>4
      <4>5. n \in 1 .. x
        <5>1. Messages[Current] = x BY <4>4, <3>3, Zenon
        <5> QED BY <5>1, <1>5, Zenon
      <4>6. p + n = ReplyLen - (x - n) /\ p + n \in 0 .. ReplyLen
        <5>1. p = ReplyLen - x /\ ReplyLen \in Nat BY <4>1, <4>4, <2>6
        <5> QED BY <5>1, <4>5
      <4>7. msgs'[1] = 0 /\ msgs'[2] = x - n BY <4>1, <4>3, <4>4
      <4>8. msgcurr' = 2 BY <3>3, <1>2
      <4> QED BY <4>6, <4>7, <4>8, <3>1 DEF Written
    <3> QED BY <3>2, <3>3, <2>5 DEF Sending
  <2>8. AllAnswers' /\ Len(wrote') = c * ReplyLen + (p + n)
    <3>1. p + n <= ReplyLen BY <2>7
    <3> QED BY <3>1, <2>2, <2>3, <2>4, <2>6, <1>2, <1>6, <1>7, MoreOfAnswer
  <2>9. At(c, p + n)'
    <3>1. /\ c < Len(asked) /\ reply = asked[c + 1]
          /\ InOrder(Ahead, Len(Ahead), asked, Len(asked), lines, c + 1)
      BY <2>1, <1>2 DEF At
    <3> QED BY <3>1, <2>7, <2>8, <1>2 DEF At, Ahead
  <2>10. AnswersInOrder'
    <3>1. (Typed /\ AllAnswers => AnswersInOrder)' BY AllInOrder, PTL
    <3> QED BY <3>1, <2>8
  <2>11. ~Dying' BY <1>2, <1>11 DEF Dying
  <2>12. c \in 0 .. Len(asked)' /\ p + n \in 0 .. ReplyLen BY <2>1, <2>7, <1>2
  <2> QED BY <2>8, <2>9, <2>10, <2>11, <2>12 DEF Answers
<1> QED BY <1>10, <1>11

\* The answer is sent: on to what follows it.
LEMMA AnswersComplete == Typed /\ Answers /\ TransmitComplete => Answers'
<1> SUFFICES ASSUME Typed, Answers, TransmitComplete PROVE Answers' OBVIOUS
<1>1. /\ state = "write" /\ state' = go /\ ~ (Current <= Len(Messages))
      /\ UNCHANGED <<buf, net, asked, lines, wrote, reply, go>>
  <2>1. Current \in 1 .. 3 /\ Len(Messages) \in 1 .. 2 BY MessagesType DEF Typed
  <2> QED BY <2>1 DEF TransmitComplete, In, Goto, inbuf, client, ghost
<1>2. /\ AnswersInOrder' /\ (AllAnswers => AllAnswers') /\ ~Dying'
  <2>1. state' # "write" BY <1>1 DEF Typed, ControlType
  <2> QED BY <2>1, <1>1 DEF Answers, AnswersInOrder, AllAnswers, AnswerOf, Dying
<1>3. CASE Dying
  <2>1. Lost' BY <1>1, <1>3 DEF Dying, Lost
  <2> QED BY <2>1, <1>2 DEF Answers
<1>4. CASE ~Dying
  <2>1. PICK c \in 0 .. Len(asked), p \in 0 .. ReplyLen : At(c, p)
    BY <1>1, <1>4 DEF Answers, Lost
  <2>2. AllAnswers BY <1>1, <1>4 DEF Answers, Lost
  <2>3. reply > 0 BY <2>1, <1>1, AtRequest
  <2>4. Len(wrote) = c * ReplyLen + p /\ Written(p) /\ c < Len(asked) BY <2>1, <1>1 DEF At
  <2>5. p = ReplyLen
    <3>1. Len(Messages) = 2 /\ (Current > 2 => p = ReplyLen) BY <2>3, <2>4, BeginsAt
    <3>2. Current \in 1 .. 3 BY MessagesType DEF Typed
    <3>3. ~ (Current <= 2) BY <3>1, <1>1
    <3> QED BY <3>1, <3>2, <3>3
  <2>6. Len(wrote) = (c + 1) * ReplyLen + 0
    <3>1. c \in Nat /\ ReplyLen \in Nat BY <2>1, TypedLengths
    <3>2. (c + 1) * ReplyLen = c * ReplyLen + ReplyLen BY <3>1
    <3> QED BY <3>1, <3>2, <2>4, <2>5
  <2>7. InOrder(Ahead, Len(Ahead), asked, Len(asked), lines, c + 1) BY <2>1, <1>1 DEF At
  <2>8. state' # "write" BY <1>1 DEF Typed, ControlType
  <2>9. At(c + 1, 0)' BY <2>6, <2>7, <2>8, <1>1 DEF At, Ahead
  <2>10. c + 1 \in 0 .. Len(asked)' /\ 0 \in 0 .. ReplyLen BY <2>1, <2>4, <1>1, TypedLengths
  <2> QED BY <2>2, <2>9, <2>10, <1>2 DEF Answers
<1> QED BY <1>3, <1>4

\* sendmsg takes nothing: the messages are assembled, if they were not, and
\* one that is finished is passed over.
LEMMA AnswersStuck ==
  ASSUME Typed, Answers, state = "write", Current <= Len(Messages),
         msgs' = Messages, msgcurr' = Current, state' \in {"write", "closing"},
         UNCHANGED <<buf, net, asked, lines, wrote, reply, go>>
  PROVE  Answers'
<1>1. AnswersInOrder' /\ (AllAnswers => AllAnswers')
  BY DEF Answers, AnswersInOrder, AllAnswers, AnswerOf
<1>2. CASE state' = "closing"
  <2>1. Lost' /\ ~Dying' BY <1>2 DEF Lost, Dying
  <2> QED BY <2>1, <1>1 DEF Answers
<1>3. CASE state' = "write" /\ Dying
  <2>1. reply = 0 BY <1>3 DEF Answers, SaidOnce
  <2>2. SaidOnce'
    <3>1. CASE msgs \in {<<>>, <<1>>} /\ msgcurr = 1 /\ AllAnswers
      <4>1. Messages = <<1>> BY <2>1, <3>1 DEF Messages
      <4>2. Current = 1 BY <3>1, <4>1 DEF Current
      <4>3. msgs' \in {<<>>, <<1>>} /\ msgcurr' = 1 /\ reply' = 0 BY <4>1, <4>2, <2>1
      <4>4. AllAnswers' BY <3>1, <1>1
      <4> QED BY <4>3, <4>4, Zenon DEF SaidOnce
    <3>2. CASE Len(msgs) = 1 /\ msgs[1] = 0
      <4>1. Messages = msgs BY <3>2, EmptySeq DEF Messages
      <4> QED BY <4>1, <3>2, <2>1 DEF SaidOnce
    <3> QED BY <3>1, <3>2, <1>3 DEF Answers, SaidOnce
  <2>3. Dying' BY <1>3 DEF Dying
  <2> QED BY <2>2, <2>3, <1>1 DEF Answers
<1>4. CASE state' = "write" /\ ~Dying
  <2>1. PICK c \in 0 .. Len(asked), p \in 0 .. ReplyLen : At(c, p)
    BY <1>4 DEF Answers, Lost
  <2>2. AllAnswers BY <1>4 DEF Answers, Lost
  <2>3. reply > 0 BY <2>1, AtRequest
  <2>4. Written(p) BY <2>1 DEF At
  <2>5. Len(Messages) = 2 /\ (Current <= 2 => Sending(Messages, Current, p))
    BY <2>3, <2>4, BeginsAt
  <2>6. Sending(msgs', msgcurr', p) BY <2>5
  <2>7. Written(p)' BY <2>6 DEF Sending, Written
  <2>8. At(c, p)' BY <2>1, <2>7, <1>4 DEF At, Ahead
  <2>9. ~Dying' /\ c \in 0 .. Len(asked)' /\ p \in 0 .. ReplyLen BY <2>1, <1>4 DEF Dying
  <2> QED BY <2>2, <2>8, <2>9, <1>1 DEF Answers
<1> QED BY <1>2, <1>3, <1>4

LEMMA InitAnswers == Init => Answers
<1> SUFFICES ASSUME Init PROVE Answers OBVIOUS
<1>1. /\ state = "new_cmd" /\ buf = <<>> /\ net = <<>> /\ asked = <<>> /\ wrote = <<>>
      /\ lines = 0
  BY DEF Init, NoClient
<1>2. Ahead = <<>> /\ Len(<<>>) = 0 /\ 1 .. 0 = {}
  BY <1>1, EmptySeq, ConcatEmptySeq DEF Ahead
<1>3. AnswersInOrder /\ AllAnswers
  BY <1>1, <1>2 DEF AnswersInOrder, AllAnswers
<1>4. At(0, 0)
  <2>1. InOrder(<<>>, 0, <<>>, 0, lines, 0) BY <1>2 DEF InOrder
  <2>2. 0 = 0 * ReplyLen + 0 BY ReplyAssumption
  <2> QED BY <1>1, <1>2, <2>1, <2>2 DEF At
<1>5. 0 \in 0 .. Len(asked) /\ 0 \in 0 .. ReplyLen
  BY <1>1, <1>2, ReplyAssumption
<1>6. ~Dying BY <1>1 DEF Dying
<1> QED BY <1>3, <1>4, <1>5, <1>6 DEF Answers

LEMMA NextAnswers == Typed /\ Typed' /\ Answers /\ [Next]_vars => Answers'
<1> SUFFICES ASSUME Typed, Typed', Answers, [Next]_vars PROVE Answers' OBVIOUS
<1> USE DEF event, inbuf, out, client, ghost
<1>1. CASE Send BY <1>1, AnswersSend
<1>2. CASE Receive \/ Leave \/ Fire \/ UNCHANGED vars
  BY <1>2, AnswersQuiet DEF Receive, Leave, Fire, vars
<1>3. CASE Reuse BY <1>3, AnswersReuse
<1>4. CASE Grow BY <1>4, AnswersGrow
<1>5. CASE ReadData BY <1>5, AnswersRead
<1>6. CASE Command BY <1>6, AnswersCommand
<1>7. CASE TransmitSome BY <1>7, AnswersSome
<1>8. CASE TransmitComplete BY <1>8, AnswersComplete
<1>9. CASE TransmitSoftError \/ TransmitHardError
  BY <1>9, AnswersStuck DEF TransmitSoftError, TransmitHardError, In, Goto
<1>10. CASE Waiting \/ EnoughRead \/ NothingToRead \/ ReadError \/ NoCommand \/ NextCommand
            \/ Yield \/ Close
  <2>1. /\ state # "write" /\ state' # "write" /\ (Lost => Lost')
        /\ UNCHANGED <<wrote, asked, lines, buf, net>>
    BY <1>10 DEF Waiting, EnoughRead, NothingToRead, ReadError, NoCommand, NextCommand, Yield,
       Close, In, Goto, EndRead, Lost
  <2> QED BY <2>1, AnswersFrame DEF Ahead
<1> QED
  BY <1>1, <1>2, <1>3, <1>4, <1>5, <1>6, <1>7, <1>8, <1>9, <1>10 DEF Next, Machine

\* A client gets the answers to its own requests, whole, in the order of the
\* requests and none twice, then at most that the server is out of memory:
\* however its requests were cut into reads, however often the machine gave
\* way between them or sendmsg took a part of an answer, and whoever had the
\* connection object before.
THEOREM AnswersKeepOrder == Spec => []AnswersInOrder
<1>1. Init => Typed /\ Answers BY InitTyped, InitAnswers
<1>2. Typed /\ Answers /\ [Next]_vars => (Typed /\ Answers)'
  BY NextTyped, NextAnswers
<1>3. Answers => AnswersInOrder BY DEF Answers
<1> QED BY <1>1, <1>2, <1>3, PTL DEF Spec
=============================================================================
