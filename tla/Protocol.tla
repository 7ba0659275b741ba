------------------------------ MODULE Protocol ------------------------------
(***************************************************************************)
(* The layout of a message (protocol.c): what the Format functions write   *)
(* and what the Parse functions make of it.                                *)
(*                                                                         *)
(* A buffer is a sequence of cells.  The unit of every size is sizeof(int) *)
(* so an integer takes one cell; so does a character, which changes the    *)
(* sizes of the messages and none of the offsets.  An integer is written   *)
(* in network order (htonl) or in host order, and reading it in the other  *)
(* order yields a number larger than any buffer.                           *)
(***************************************************************************)
EXTENDS Integers, Sequences

CONSTANTS MaxBufLen,   \* MAX_BUF_LEN: size of every message buffer
          MaxDataNum,  \* MAX_DATA_NUM
          MaxDataLen   \* MAX_DATA_LEN

ASSUME LimitsAssumption ==
  MaxBufLen \in Nat /\ MaxDataNum \in Nat /\ MaxDataLen \in Nat

Net(i)  == [form |-> "net", val |-> i]
Host(i) == [form |-> "host", val |-> i]
Char(c) == [form |-> "char", val |-> c]

Read(cell, order) ==
  IF cell.form = order THEN cell.val
  ELSE IF cell.val = 0 THEN 0 ELSE MaxBufLen + 1

Chars(word) == [i \in DOMAIN word |-> Char(word[i])]
Text(cells) == [i \in DOMAIN cells |-> cells[i].val]

(* What a Format function leaves behind when it returns -1. *)
Refused == <<>>

(* sizeof(tDataFormat): command, number of data, length of the first. *)
HeaderSize == 3
Header(cmd, num, len) == <<Net(cmd), Net(num), Net(len)>>

FormatData(size, cmd) ==
  IF size < HeaderSize THEN Refused ELSE Header(cmd, 0, 0)

FormatData1(size, cmd, data1) ==
  IF size < HeaderSize + Len(data1) THEN Refused
  ELSE Header(cmd, 1, Len(data1)) \o data1

(* A mutant: the last character of the second data is not counted.         *)
FormatData2Short(size, cmd, data1, data2) ==
  IF size < HeaderSize + Len(data1) + 1 + Len(data2) THEN Refused
  ELSE Header(cmd, 2, Len(data1)) \o data1 \o <<Net(Len(data2) - 1)>> \o data2

FormatData2(size, cmd, data1, data2) ==
  IF size < HeaderSize + Len(data1) + 1 + Len(data2) THEN Refused
  ELSE Header(cmd, 2, Len(data1)) \o data1 \o <<Net(Len(data2))>> \o data2

(* All data one after the other, each behind its length in host order;     *)
(* filled[i] is what has been written after the first i.                   *)
Packed(data) ==
  LET filled[i \in 0 .. Len(data)] ==
        IF i = 0 THEN <<>> ELSE filled[i - 1] \o <<Host(Len(data[i]))>> \o data[i]
  IN  filled[Len(data)]

(* A mutant: the data begin after the header.                              *)
FormatDataNAfter(pBuf, cmd, data) ==
  LET message == Header(cmd, Len(data), 0) \o Packed(data)
  IN  IF Len(pBuf) < Len(message) THEN Refused
      ELSE message \o SubSeq(pBuf, Len(message) + 1, Len(pBuf))

(* The first length goes where the header has its third integer, which     *)
(* the test of the size nevertheless counts.  The size of the message is   *)
(* not returned: the caller sends its whole buffer pBuf, with what it held *)
(* before behind the message.                                              *)
FormatDataN(pBuf, cmd, data) ==
  LET message == IF data = <<>> THEN Header(cmd, 0, 0)
                 ELSE <<Net(cmd), Net(Len(data))>> \o Packed(data)
  IN  IF Len(pBuf) < HeaderSize + Len(Packed(data)) THEN Refused
      ELSE message \o SubSeq(pBuf, Len(message) + 1, Len(pBuf))

(* What a Parse function returns: cmd and num are as initialised by the    *)
(* caller, -1, if the buffer is too short for a header.                    *)
Parsed(ret, cmd, num, data) == [ret |-> ret, cmd |-> cmd, num |-> num, data |-> data]
NotParsed == Parsed(-1, -1, -1, <<>>)

(* max1, max2: the sizes of the caller's buffers.  A data that does not    *)
(* end inside the message, or does not fit, fails the call.                *)
ParseData(buf, max1, max2) ==
  IF Len(buf) < HeaderSize THEN NotParsed
  ELSE
    LET cmd   == Read(buf[1], "net")
        num   == Read(buf[2], "net")
        len1  == Read(buf[3], "net")
        ok1   == num > 0 => HeaderSize + len1 <= Len(buf) /\ len1 <= max1
        data1 == SubSeq(buf, HeaderSize + 1, HeaderSize + len1)
        start == HeaderSize + len1 + 1
        len2  == Read(buf[start], "net")
        ok2   == num > 1 => start + len2 <= Len(buf) /\ len2 <= max2
        data2 == SubSeq(buf, start + 1, start + len2)
    IN  IF ~ok1 \/ num > 2 THEN Parsed(-1, cmd, num, <<>>)
        ELSE IF ~ok2 THEN Parsed(-1, cmd, num, <<data1>>)
        ELSE Parsed(0, cmd, num, SubSeq(<<data1, IF num > 1 THEN data2 ELSE <<>>>>, 1, num))

(* at[i]: where the length of the i-th data stands; row[i]: the string in  *)
(* the i-th row, whose terminator follows the data.  Behind MaxDataLen     *)
(* characters that is the first byte of the next row, which the next data  *)
(* overwrites, so the string goes on there.  Behind the last row of        *)
(* MAX_DATA_NUM it is a byte past the array, which is not modelled.        *)
ParseDataN(buf) ==
  IF Len(buf) < HeaderSize THEN NotParsed
  ELSE
    LET cmd     == Read(buf[1], "net")
        num     == Read(buf[2], "net")
        size(p) == Read(buf[p], "host")
        at[i \in 1 .. num] == IF i = 1 THEN HeaderSize ELSE at[i - 1] + 1 + size(at[i - 1])
        item(i) == SubSeq(buf, at[i] + 1, at[i] + size(at[i]))
        row[i \in 1 .. num] == IF i < num /\ size(at[i]) = MaxDataLen
                               THEN item(i) \o row[i + 1] ELSE item(i)
    IN  IF num > MaxDataNum \/ \E i \in 1 .. num : size(at[i]) > MaxDataLen
        THEN Parsed(-1, cmd, num, <<>>)
        ELSE Parsed(0, cmd, num, row)
=============================================================================
