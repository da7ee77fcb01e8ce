--------------------------- MODULE DataLoggerProofs --------------------------
(***************************************************************************)
(* The data logger, proved for every set of item names, every length of an *)
(* item and every number of lines.                                         *)
(*                                                                         *)
(* The argument: an item is declared with the columns right after the ones *)
(* declared before it, so a column keeps its one owner (OwnersInv); a line *)
(* is only recorded after the declarations have ended, and what recording  *)
(* puts in a column comes from its owner (ValuesInv).  That isItemDataIn   *)
(* is never reset does not matter here: the values recorded with it are    *)
(* not reset either (RecordedInv).                                         *)
(***************************************************************************)
EXTENDS DataLogger, FiniteSetTheorems, TLAPS

Value == [name : Names \cup {"zero"}, line : Nat]

Item == [name : Names, len : 1 .. MaxLen, start : Nat]

LoggerTypes ==
    /\ phase \in {"declare", "ready", "recording", "thrown"}
    /\ recItem \in Seq(Item)
    /\ colCout \in Nat /\ line \in Nat
    /\ recValue \in Seq(Value) /\ isItemDataIn \in Seq(BOOLEAN)

(* Every column has one owner, and every item its columns.                 *)
OwnersInv ==
    /\ \A i \in DOMAIN recItem : Columns(i) \subseteq 1 .. colCout
    /\ \A c \in 1 .. colCout : \E i \in DOMAIN recItem :
           /\ c \in Columns(i)
           /\ \A j \in DOMAIN recItem : c \in Columns(j) => j = i

(* The caller's protocol: a line has all its columns.                      *)
LinesInv ==
    /\ phase = "declare" => recValue = <<>> /\ isItemDataIn = <<>>
    /\ phase \in {"ready", "recording"} =>
           Len(recValue) = colCout /\ Len(isItemDataIn) = Len(recItem)
    /\ phase = "recording" => line >= 1

ValuesInv ==
    \A c \in DOMAIN recValue : recValue[c] # Zero =>
        \E i \in DOMAIN recItem :
            c \in Columns(i) /\ recValue[c].name = recItem[i].name

RecordedInv ==
    \A i \in DOMAIN isItemDataIn : isItemDataIn[i] =>
        \A c \in Columns(i) : recValue[c].line >= 1

(* The inductive invariant.                                                *)
LoggerInv ==
    /\ LoggerTypes /\ OwnersInv /\ LinesInv /\ ValuesInv /\ RecordedInv
    /\ WrittenLineIsFull

-----------------------------------------------------------------------------
LEMMA LoggerInvInit == LoggerInit => LoggerInv
BY DEF LoggerInit, LoggerInv, LoggerTypes, OwnersInv, LinesInv, ValuesInv,
       RecordedInv, WrittenLineIsFull

(* Declaring an item: its columns are new, the others keep their owners.   *)
LEMMA AddItermInv ==
    ASSUME LoggerInv, NEW name \in Names, NEW len \in 1 .. MaxLen,
           AddIterm(name, len)
    PROVE  LoggerInv'
<1> DEFINE item == [name |-> name, len |-> len, start |-> colCout]
<1>0. PICK n \in Nat : n = Len(recItem)
  BY DEF LoggerInv, LoggerTypes
<1>1. /\ phase = "declare" /\ recItem' = Append(recItem, item)
      /\ colCout' = colCout + len
      /\ UNCHANGED <<phase, recValue, isItemDataIn, line, written>>
  BY DEF AddIterm
<1>2. /\ recValue = <<>> /\ isItemDataIn = <<>>
      /\ colCout \in Nat /\ len \in Nat /\ len >= 1 /\ n \in Nat
      /\ recItem \in Seq(Item)
  BY <1>1, LoggerAssumption DEF LoggerInv, LinesInv, LoggerTypes
<1>3. /\ item \in Item
      /\ item.len = len /\ item.start = colCout
  BY <1>2 DEF Item
<1> HIDE DEF item
<1>4. /\ recItem' \in Seq(Item)
      /\ DOMAIN recItem = 1 .. n /\ DOMAIN recItem' = 1 .. n + 1
      /\ \A i \in 1 .. n : recItem'[i] = recItem[i]
      /\ recItem'[n + 1] = item
  BY <1>0, <1>1, <1>2, <1>3
<1>5. /\ \A i \in 1 .. n : Columns(i)' = Columns(i)
      /\ Columns(n + 1)' = colCout + 1 .. colCout + len
  BY <1>3, <1>4 DEF Columns
<1>6. OwnersInv'
  <2>1. \A i \in 1 .. n : Columns(i) \subseteq 1 .. colCout
    BY <1>4 DEF LoggerInv, OwnersInv
  <2>2. ASSUME NEW i \in DOMAIN recItem'
        PROVE  Columns(i)' \subseteq 1 .. colCout'
    <3>1. CASE i \in 1 .. n
      BY <1>1, <1>2, <1>5, <2>1, <3>1
    <3>2. CASE i = n + 1
      BY <1>1, <1>2, <1>5, <3>2
    <3> QED
      BY <1>4, <3>1, <3>2
  <2>3. ASSUME NEW c \in 1 .. colCout'
        PROVE  \E i \in DOMAIN recItem' :
                   /\ c \in Columns(i)'
                   /\ \A j \in DOMAIN recItem' : c \in Columns(j)' => j = i
    <3>1. CASE c \in 1 .. colCout
      <4>1. PICK i \in 1 .. n : /\ c \in Columns(i)
                                /\ \A j \in 1 .. n : c \in Columns(j) => j = i
        BY <1>4, <3>1 DEF LoggerInv, OwnersInv
      <4>2. c \notin Columns(n + 1)'
        BY <1>2, <1>5, <3>1
      <4>3. i \in DOMAIN recItem' /\ c \in Columns(i)'
        BY <1>4, <1>5, <4>1
      <4>4. ASSUME NEW j \in DOMAIN recItem', c \in Columns(j)'
            PROVE  j = i
        <5>1. j \in 1 .. n
          BY <1>4, <4>2, <4>4
        <5> QED
          BY <1>5, <4>1, <4>4, <5>1
      <4> QED
        BY <4>3, <4>4
    <3>2. CASE c \notin 1 .. colCout
      <4>1. c \in Columns(n + 1)'
        BY <1>1, <1>2, <1>5, <2>3, <3>2
      <4>2. \A j \in 1 .. n : c \notin Columns(j)'
        BY <1>5, <2>1, <3>2
      <4> QED
        BY <1>2, <1>4, <4>1, <4>2
    <3> QED
      BY <3>1, <3>2
  <2> QED
    BY <2>2, <2>3 DEF OwnersInv
<1>7. LoggerTypes' /\ LinesInv'
  BY <1>1, <1>2, <1>4 DEF LoggerInv, LoggerTypes, LinesInv
<1>8. ValuesInv' /\ RecordedInv' /\ WrittenLineIsFull'
  BY <1>1, <1>2 DEF LoggerInv, ValuesInv, RecordedInv, WrittenLineIsFull
<1> QED
  BY <1>6, <1>7, <1>8 DEF LoggerInv

(* clear keeps what was recorded: it only brings the line to its length.   *)
LEMMA ClearInv ==
    ASSUME LoggerInv, Clear, phase \in {"declare", "ready"},
           phase' \in {"ready", "recording"},
           phase' = "recording" => line' >= 1,
           line' \in Nat, UNCHANGED <<recItem, colCout, written>>
    PROVE  LoggerInv'
<1>1. /\ recValue \in Seq(Value) /\ isItemDataIn \in Seq(BOOLEAN)
      /\ colCout \in Nat /\ Len(recItem) \in Nat
      /\ Zero \in Value /\ Len(recValue) \in Nat /\ Len(isItemDataIn) \in Nat
  BY DEF LoggerInv, LoggerTypes, Zero, Value
<1>2. \A i : Columns(i)' = Columns(i)
  BY DEF Columns
<1>3. /\ recValue' = [c \in 1 .. colCout |->
                         IF c <= Len(recValue) THEN recValue[c] ELSE Zero]
      /\ isItemDataIn' = [i \in 1 .. Len(recItem) |->
                         IF i <= Len(isItemDataIn) THEN isItemDataIn[i] ELSE FALSE]
  BY DEF Clear, Resize
<1>4. \A c \in 1 .. colCout :
          IF c <= Len(recValue) THEN recValue[c] \in Value ELSE Zero \in Value
  BY <1>1
<1>5. \A i \in 1 .. Len(recItem) :
          IF i <= Len(isItemDataIn) THEN isItemDataIn[i] \in BOOLEAN ELSE TRUE
  BY <1>1
<1>6. /\ recValue' \in Seq(Value) /\ Len(recValue') = colCout
      /\ isItemDataIn' \in Seq(BOOLEAN) /\ Len(isItemDataIn') = Len(recItem)
  <2>1. recValue' \in [1 .. colCout -> Value]
    BY <1>3, <1>4
  <2>2. isItemDataIn' \in [1 .. Len(recItem) -> BOOLEAN]
    BY <1>3, <1>5
  <2> QED
    BY <1>1, <2>1, <2>2
<1>7. LoggerTypes' /\ LinesInv' /\ OwnersInv' /\ WrittenLineIsFull'
  BY <1>1, <1>2, <1>6 DEF LoggerInv, LoggerTypes, LinesInv, OwnersInv, WrittenLineIsFull
<1>8. ValuesInv'
  BY <1>1, <1>2, <1>3, <1>6 DEF LoggerInv, ValuesInv, Zero
<1>9. RecordedInv'
  <2> SUFFICES ASSUME NEW i \in DOMAIN isItemDataIn', isItemDataIn'[i],
                      NEW c \in Columns(i)
               PROVE  recValue'[c].line >= 1
    BY <1>2 DEF RecordedInv
  <2>1. /\ i \in DOMAIN isItemDataIn /\ isItemDataIn[i] /\ i \in DOMAIN recItem
    BY <1>1, <1>3, <1>6 DEF LoggerInv, LoggerTypes
  <2>2. phase = "ready" /\ Len(recValue) = colCout
    BY <2>1 DEF LoggerInv, LinesInv
  <2>3. c \in 1 .. colCout /\ recValue[c].line >= 1
    BY <2>1 DEF LoggerInv, OwnersInv, RecordedInv
  <2> QED
    BY <1>1, <1>3, <2>2, <2>3
<1> QED
  BY <1>7, <1>8, <1>9 DEF LoggerInv

(* Recording an item fills its own columns and no others.                  *)
LEMMA RecItermDataInv ==
    ASSUME LoggerInv, NEW i \in DOMAIN recItem, RecItermData(i)
    PROVE  LoggerInv'
<1> DEFINE mark == [name |-> recItem[i].name, line |-> line]
<1>1. /\ recValue' = [c \in DOMAIN recValue |->
                         IF c \in Columns(i) THEN mark ELSE recValue[c]]
      /\ isItemDataIn' = [isItemDataIn EXCEPT ![i] = TRUE]
      /\ phase = "recording"
      /\ UNCHANGED <<phase, recItem, colCout, line, written>>
  BY DEF RecItermData
<1>2. /\ recValue \in Seq(Value) /\ isItemDataIn \in Seq(BOOLEAN)
      /\ colCout \in Nat /\ Len(recValue) = colCout /\ line \in Nat /\ line >= 1
      /\ DOMAIN recValue = 1 .. colCout /\ DOMAIN isItemDataIn = DOMAIN recItem
  BY <1>1 DEF LoggerInv, LoggerTypes, LinesInv
<1>3. /\ mark \in Value /\ mark.name = recItem[i].name /\ mark.line >= 1
  <2>1. recItem[i] \in Item
    BY DEF LoggerInv, LoggerTypes
  <2>2. recItem[i].name \in Names
    BY <2>1 DEF Item
  <2> QED
    BY <1>2, <2>2 DEF Value
<1> HIDE DEF mark
<1>4. \A j : Columns(j)' = Columns(j)
  BY <1>1 DEF Columns
<1>5. /\ recValue' \in Seq(Value) /\ Len(recValue') = colCout
      /\ isItemDataIn' \in Seq(BOOLEAN) /\ Len(isItemDataIn') = Len(isItemDataIn)
  <2>1. recValue' \in [1 .. colCout -> Value]
    BY <1>1, <1>2, <1>3
  <2>2. isItemDataIn' \in [1 .. Len(isItemDataIn) -> BOOLEAN]
    <3>1. isItemDataIn \in [1 .. Len(isItemDataIn) -> BOOLEAN]
      BY <1>2
    <3> QED
      BY <1>1, <3>1
  <2> QED
    BY <1>2, <2>1, <2>2
<1>6. LoggerTypes' /\ LinesInv' /\ OwnersInv' /\ WrittenLineIsFull'
  BY <1>1, <1>2, <1>4, <1>5
     DEF LoggerInv, LoggerTypes, LinesInv, OwnersInv, WrittenLineIsFull
<1>7. ValuesInv'
  <2> SUFFICES ASSUME NEW c \in 1 .. colCout, recValue'[c] # Zero
               PROVE  \E j \in DOMAIN recItem :
                          /\ c \in Columns(j)
                          /\ recValue'[c].name = recItem[j].name
    BY <1>1, <1>2, <1>4 DEF ValuesInv, Zero
  <2>1. CASE c \in Columns(i)
    BY <1>1, <1>2, <1>3, <2>1
  <2>2. CASE c \notin Columns(i)
    BY <1>1, <1>2, <2>2 DEF LoggerInv, ValuesInv
  <2> QED
    BY <2>1, <2>2
<1>8. RecordedInv'
  <2> SUFFICES ASSUME NEW j \in DOMAIN recItem, isItemDataIn'[j],
                      NEW c \in Columns(j)
               PROVE  recValue'[c].line >= 1
    BY <1>1, <1>2, <1>4 DEF RecordedInv
  <2>1. c \in 1 .. colCout
    BY DEF LoggerInv, OwnersInv
  <2>2. CASE c \in Columns(i)
    BY <1>1, <1>2, <1>3, <2>1, <2>2
  <2>3. CASE c \notin Columns(i)
    <3>1. j # i /\ isItemDataIn[j]
      BY <1>1, <1>2, <2>3
    <3> QED
      BY <1>1, <1>2, <2>1, <2>3, <3>1 DEF LoggerInv, RecordedInv
  <2> QED
    BY <2>2, <2>3
<1> QED
  BY <1>6, <1>7, <1>8 DEF LoggerInv

(* A line that is complete has no column without an owner, and each owner  *)
(* was recorded.                                                           *)
LEMMA FinishLineInv ==
    ASSUME LoggerInv, FinishLine
    PROVE  LoggerInv'
<1>1. /\ phase = "recording" /\ written' = recValue /\ phase' = "ready"
      /\ \A i \in DOMAIN isItemDataIn : isItemDataIn[i]
      /\ UNCHANGED <<recItem, colCout, recValue, isItemDataIn, line>>
  BY DEF FinishLine
<1>2. /\ DOMAIN recValue = 1 .. colCout /\ DOMAIN isItemDataIn = DOMAIN recItem
      /\ Zero.line = 0
  BY <1>1 DEF LoggerInv, LoggerTypes, LinesInv, Zero
<1>3. WrittenLineIsFull'
  <2> SUFFICES ASSUME NEW c \in 1 .. colCout
               PROVE  recValue[c] # Zero
    BY <1>1, <1>2 DEF WrittenLineIsFull, Zero
  <2>1. PICK i \in DOMAIN recItem : c \in Columns(i)
    BY DEF LoggerInv, OwnersInv
  <2>2. recValue[c].line >= 1
    BY <1>1, <1>2, <2>1 DEF LoggerInv, RecordedInv
  <2> QED
    BY <1>2, <2>2
<1>4. \A i : Columns(i)' = Columns(i)
  BY <1>1 DEF Columns
<1>5. LoggerTypes' /\ OwnersInv' /\ LinesInv' /\ ValuesInv' /\ RecordedInv'
  BY <1>1, <1>4
     DEF LoggerInv, LoggerTypes, OwnersInv, LinesInv, ValuesInv, RecordedInv, Zero
<1> QED
  BY <1>3, <1>5 DEF LoggerInv

(* An exception, like a step of something else, leaves the logger's data.  *)
LEMMA LoggerKept ==
    ASSUME LoggerInv, phase' \in {phase, "thrown"},
           UNCHANGED <<recItem, colCout, recValue, isItemDataIn, line, written>>
    PROVE  LoggerInv'
<1>1. \A i : Columns(i)' = Columns(i)
  BY DEF Columns
<1> QED
  BY <1>1 DEF LoggerInv, LoggerTypes, OwnersInv, LinesInv, ValuesInv, RecordedInv,
              WrittenLineIsFull, Zero

LEMMA LoggerInvNext == LoggerInv /\ [LoggerNext]_loggerVars => LoggerInv'
<1> SUFFICES ASSUME LoggerInv, [LoggerNext]_loggerVars PROVE LoggerInv'
  OBVIOUS
<1>1. CASE \E name \in Names, len \in 1 .. MaxLen : AddIterm(name, len)
  BY <1>1, AddItermInv
<1>2. CASE \/ \E name \in Names : AddItermTwice(name)
           \/ RecUndeclared \/ FinishIncompleteLine
  BY <1>2, LoggerKept
     DEF AddItermTwice, RecUndeclared, FinishIncompleteLine, Throw
<1>3. CASE FinishItermAdding
  <2>1. line' \in Nat
    BY <1>3 DEF FinishItermAdding, LoggerInv, LoggerTypes
  <2> QED
    BY <1>3, <2>1, ClearInv DEF FinishItermAdding
<1>4. CASE StartNewLine
  <2>1. line' \in Nat /\ line' >= 1
    BY <1>4 DEF StartNewLine, LoggerInv, LoggerTypes
  <2> QED
    BY <1>4, <2>1, ClearInv DEF StartNewLine
<1>5. CASE \E i \in DOMAIN recItem : RecItermData(i)
  BY <1>5, RecItermDataInv
<1>6. CASE FinishLine
  BY <1>6, FinishLineInv
<1>7. CASE UNCHANGED loggerVars
  BY <1>7, LoggerKept DEF loggerVars
<1> QED
  BY <1>1, <1>2, <1>3, <1>4, <1>5, <1>6, <1>7 DEF LoggerNext

-----------------------------------------------------------------------------
(* The inductive invariant holds in every state of the logger.             *)
THEOREM LoggerInvariance == LoggerSpec => []LoggerInv
BY LoggerInvInit, LoggerInvNext, PTL DEF LoggerSpec

(* Every column belongs to exactly one item, and holds only values of it.  *)
THEOREM ColumnsBelongToItemsHolds == LoggerSpec => []ColumnsBelongToItems
<1>1. LoggerInv => ColumnsBelongToItems
  <2> SUFFICES ASSUME LoggerInv PROVE ColumnsBelongToItems
    OBVIOUS
  <2>1. ASSUME NEW c \in 1 .. colCout
        PROVE  Cardinality(ItemsAt(c)) = 1
    <3>1. PICK i \in DOMAIN recItem :
              /\ c \in Columns(i)
              /\ \A j \in DOMAIN recItem : c \in Columns(j) => j = i
      BY <2>1 DEF LoggerInv, OwnersInv
    <3>2. ItemsAt(c) = {i}
      BY <3>1 DEF ItemsAt
    <3> QED
      BY <3>2, FS_Singleton
  <2>2. ASSUME NEW c \in DOMAIN recValue, recValue[c] # Zero
        PROVE  \E i \in ItemsAt(c) : recValue[c].name = recItem[i].name
    BY <2>2 DEF LoggerInv, ValuesInv, ItemsAt
  <2> QED
    BY <2>1, <2>2 DEF ColumnsBelongToItems
<1> QED
  BY <1>1, LoggerInvariance, PTL

(* No line reaches the file with a column that was never recorded.         *)
THEOREM WrittenLineIsFullHolds == LoggerSpec => []WrittenLineIsFull
<1>1. LoggerInv => WrittenLineIsFull
  BY DEF LoggerInv
<1> QED
  BY <1>1, LoggerInvariance, PTL
=============================================================================
