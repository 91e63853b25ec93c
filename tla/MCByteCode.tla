----------------------------- MODULE MCByteCode -----------------------------
(***************************************************************************)
(* A document for TLC: the lines of the configurations under xml/, and     *)
(* lines that reach the branches of execByteCode() which these leave out.  *)
(***************************************************************************)
EXTENDS Commands

Num(a, b) == Numeral(<<a, b>>)

\* xml/kw/vcontrold.xml, protocol KW2
KW2 == [SYNC    |-> <<<<Word("SEND"), Num(0, 4)>>, <<Word("WAIT"), Num(0, 5)>>>>,
        GETADDR |-> <<<<Word("SEND"), Num(0, 1), Num(15, 7)>>>>,
        SETADDR |-> <<<<Word("SEND"), Num(0, 1), Num(15, 4)>>>>]

Receive(n, u) == <<Word("RECV"), n, u>>
Pause      == <<Word("PAUSE"), Numeral(<<1, 0, 0>>)>>
Address(w) == <<Word(w), Variable("addr"), Variable("hexlen")>>
Bytes      == <<Word("SEND"), Word("BYTES"), Variable("unit")>>

ProtocolCommands ==
  [getaddr |-> [send |-> <<<<Word("SYNC")>>, Address("GETADDR"),
                           Receive(Variable("len"), Variable("unit"))>>,
                retry |-> 2, timeout |-> TRUE],
   setaddr |-> [send |-> <<<<Word("SYNC")>>, Address("SETADDR"), Bytes,
                           Receive(Numeral(<<1>>), Word("SR"))>>,
                retry |-> 3, timeout |-> TRUE],
   \* BYTES that is not merged into a SEND, and no answer
   store   |-> [send |-> <<Pause, Bytes, <<Word("SEND"), Num(0, 2)>>>>,
                retry |-> 2, timeout |-> FALSE],
   \* BYTES that is not merged, without a unit
   forward |-> [send |-> <<<<Word("SEND"), Num(0, 1)>>, Pause,
                           <<Word("SEND"), Word("BYTES")>>,
                           <<Word("RECV"), Variable("len")>>>>,
                retry |-> 1, timeout |-> TRUE],
   \* a macro that the protocol does not have
   typo    |-> [send |-> <<<<Word("SEND"), Num(0, 4)>>, Address("GETBADDR")>>,
                retry |-> 2, timeout |-> TRUE]]

Described(pcmd, len, unit, errStr, pre) ==
  [pcmd |-> pcmd, addr |-> <<85, 37>>, len |-> len, unit |-> unit,
   errStr |-> errStr, pre |-> pre]

Document ==
  [get     |-> Described("getaddr", 10, "BIT", TRUE, ""),
   set     |-> Described("setaddr", 2, "UT", TRUE, ""),
   setBit  |-> Described("setaddr", 1, "BIT", FALSE, "get"),
   store   |-> Described("store", 1, "TI", TRUE, ""),
   forward |-> Described("forward", 2, "", FALSE, ""),
   typo    |-> Described("typo", 1, "UT", FALSE, "")]

UnitTable == [UT  |-> [len |-> 2, noPara |-> FALSE],
              BIT |-> [len |-> 1, noPara |-> FALSE],
              TI  |-> [len |-> 2, noPara |-> TRUE]]

\* TLC evaluates FromDocument once, and a definition given for a constant at each use.
Configured == FromDocument

\* All its commands are of the shapes that WholeParameter is about.
ASSUME FitAssumption == \A c \in Name : BytesFit(c)

\* And none sends nothing for a parameter.
ASSUME LengthAssumption == \A c \in Name : BytesHaveLength(c)

AllNames == DOMAIN Document
SetName  == {"set"}
OneTwoThree == {1, 2, 3}
=============================================================================
