------------------------------- MODULE Config -------------------------------
(***************************************************************************)
(* The lists of commands that xmlconfig.c builds from the XML document,    *)
(* parser.c compiles, and a later load frees.                              *)
(*                                                                         *)
(* A command has a default definition and, below it, definitions for       *)
(* single devices.  Every device gets a list of its own, with its own      *)
(* definitions and copies of the defaults it has none for.  The nodes of   *)
(* all these lists share strings; which node frees which of them depends   *)
(* on its type.  The strings allocated on the way are kept here with the   *)
(* number of times each has been freed.                                    *)
(*                                                                         *)
(* A document is read one element after the other.  An element that stands *)
(* there twice takes the place of the first, whose string nobody owns from *)
(* then on.  The text of the document, the numbers len and bit and the     *)
(* lists of protocols and units are left out.                              *)
(***************************************************************************)
EXTENDS Naturals, FiniteSetsExt, SequencesExt

CONSTANTS
  Name,           \* names of commands
  Device,         \* IDs of devices
  Pcmd,           \* protocol commands that commands refer to ...
  DefinedPcmd,    \* ... and those that the protocols define
  Given,          \* the optional elements that documents use
  MaxElements     \* bound: for each load of the process, elements below <commands>

ASSUME GivenAssumption == Given \subseteq {"addr", "unit", "errStr", "precmd", "description"}
ASSUME PcmdAssumption  == DefinedPcmd \subseteq Pcmd
ASSUME ElementsAssumption == MaxElements \in Seq(Nat)

\* "default" is the mark of the list of defaults here, and stands for no device.
ASSUME DeviceAssumption == "default" \notin Device

VARIABLES
  pc,          \* "idle", "reading", "compile" or "exited"
  load,        \* number of the present or last load
  read,        \* the elements read by it so far
  tcmds,       \* TcmdPtr: the default definitions it has built
  tdevs,       \* TdevPtr: for each declared device, the list of its commands
  devID,       \* the device that the document's <config> names
  conf,        \* cmdPtr and devPtr: the lists in force, with the document they are from
  replaced,    \* the loads whose lists have been in force and no longer are
  frees,       \* how often each string that was allocated has been freed
  overwritten  \* the strings whose only owner was made to point to another one

vars == <<pc, load, read, tcmds, tdevs, devID, conf, replaced, frees, overwritten>>

(* A string is known by where it was allocated: by which load, for which   *)
(* element or place in a list, for which field of the node.                *)
XmlString(field, text) ==
  [load |-> load, at |-> Len(read) + 1, of |-> "xml", field |-> field, text |-> text]

\* What an element below a <device> allocates for nothing.
LostString(field) ==
  [load |-> load, at |-> Len(read) + 1, of |-> "lost", field |-> field, text |-> "default"]

SendString(d, i) ==
  [load |-> load, at |-> i, of |-> d, field |-> "send", text |-> "compiled"]

\* A node has a type and the strings its fields point to; the others are NULL.
Fields == {"name", "description", "pcmd", "send", "addr", "unit", "errStr", "precmd"}

Default  == 1      \* "everything orig"
Override == 2      \* "only address, unit len orig"
Copy     == 0      \* "everything copied"

\* Variant: a device's own definition frees the name and the description it shares.
Owns_SharedToo(type) == IF type = Copy THEN {"send"} ELSE Fields

\* removeCommandList(): what is freed with a node of each type.
Owns(type) == CASE type = Copy     -> {"send"}
                [] type = Override -> Fields \ {"name", "description"}
                [] type = Default  -> Fields

NoConf == [load |-> 0, cmds |-> <<>>, devs |-> [d \in {} |-> <<>>], read |-> <<>>]

Init == /\ pc = "idle" /\ load = 0 /\ read = <<>>
        /\ tcmds = <<>> /\ tdevs = NoConf.devs /\ devID \in Device
        /\ conf = NoConf /\ replaced = {} /\ frees = [s \in {} |-> 0] /\ overwritten = {}

Allocate(strings) ==
  frees' = [s \in strings \cup DOMAIN frees |-> IF s \in strings THEN 0 ELSE frees[s]]

\* The fields of a node when one more of them is set.
Put(strings, f, s) ==
  [g \in (DOMAIN strings) \cup {f} |-> IF g = f THEN s ELSE strings[g]]

\* getCommandNode(): the first node of that name, as its place in the list, or 0.
getCommandNode(list, n) == SelectInSeq(list, LAMBDA node : node.strings["name"].text = n)

-----------------------------------------------------------------------------
(* Reading the document.                                                   *)

\* parseDevice(): <devices> declares some, still without commands.
parseDevice == \E declared \in SUBSET Device \ {{}} : tdevs' = [d \in declared |-> <<>>]

\* parseConfig(): what it says of line, network and logging has no bearing on the lists.
parseConfig == devID' \in Device

\* A load begins, with the sections that precede <commands>.
BeginLoad ==
  /\ pc = "idle" /\ load < Len(MaxElements)
  /\ pc' = "reading" /\ load' = load + 1 /\ read' = <<>> /\ tcmds' = <<>>
  /\ parseDevice /\ parseConfig
  /\ UNCHANGED <<conf, replaced, frees, overwritten>>

Reads(element) == /\ pc = "reading"
                  /\ read' = Append(read, element)
                  /\ UNCHANGED <<pc, load, devID, conf, replaced>>

\* <command>, with the description that the documents give before anything that needs it.
ReadCommand(n, p) ==
  LET strings == [f \in {"name", "description", "pcmd"} |->
                    XmlString(f, CASE f = "name" -> n [] f = "pcmd" -> p [] OTHER -> n)]
  IN /\ Reads([is |-> "command", name |-> n, pcmd |-> p])
     /\ tcmds' = Append(tcmds, [type |-> Default, strings |-> strings])
     /\ Allocate(Range(strings))
     /\ UNCHANGED <<tdevs, overwritten>>

\* <addr>, <unit>, <error>, <precommand> or another <description> of the command.  What the
\* field pointed to is not freed; after a <device> it may share the first description.
ReadField(f) ==
  /\ tcmds # <<>>
  /\ Reads([is |-> "field", field |-> f])
  /\ tcmds' = [tcmds EXCEPT ![Len(tcmds)].strings = Put(@, f, XmlString(f, "default"))]
  /\ Allocate({XmlString(f, "default")})
  /\ overwritten' = overwritten \cup {Last(tcmds).strings[g] :
                                        g \in {f} \cap DOMAIN Last(tcmds).strings}
  /\ UNCHANGED tdevs

\* Variant: the protocol command is not copied from the command.
OverrideStrings_NoPcmd(c, d, fields, protocmd) ==
  [f \in fields \cup ({"unit"} \cap DOMAIN c) |->
     XmlString(f, IF f \in fields THEN d ELSE c[f].text)]

\* Variant: whatever a <device> does not give is copied from the command.
OverrideStrings_AllInherited(c, d, fields, protocmd) ==
  [f \in fields \cup ((DOMAIN c) \ {"name", "description"}) |->
     XmlString(f, CASE f \in fields                    -> d
                    [] f = "pcmd" /\ protocmd # {} -> CHOOSE p \in protocmd : TRUE
                    [] OTHER                        -> c[f].text)]

\* What a <device> with these elements allocates: a protocol command always, and
\* a unit also when only the command has one.
OverrideStrings(c, d, fields, protocmd) ==
  LET inherited == {"pcmd", "unit"} \cap DOMAIN c
  IN [f \in fields \cup inherited |->
        XmlString(f, CASE f \in fields                    -> d
                       [] f = "pcmd" /\ protocmd # {} -> CHOOSE p \in protocmd : TRUE
                       [] OTHER                        -> c[f].text)]

\* <device> below a command: fields are its elements, protocmd its attribute if any.  Some
\* elements are there twice, or give a description, which the command's own replaces: lost
\* are those, one string of each standing for all that go this way.
ReadDevice(d, fields, lost, protocmd) ==
  /\ tcmds # <<>> /\ d \in DOMAIN tdevs
  /\ LET c   == Last(tcmds).strings
         own == OverrideStrings(c, d, fields, protocmd)
     IN /\ Reads([is |-> "device", dev |-> d, fields |-> fields, protocmd |-> protocmd])
        /\ tdevs' = [tdevs EXCEPT ![d] =
             Append(@, [type |-> Override,
                        strings |-> [f \in (DOMAIN own) \cup {"name", "description"} |->
                                       IF f \in DOMAIN own THEN own[f] ELSE c[f]]])]
        /\ Allocate(Range(own) \cup {LostString(f) : f \in lost})
        /\ overwritten' = overwritten \cup {LostString(f) : f \in lost}
  /\ UNCHANGED tcmds

-----------------------------------------------------------------------------
(* The end of a load.                                                      *)

\* The process gives up when it has no configuration yet (main), and else keeps its own.
\* What has been built is not freed, then or later: the strings of a refused document leak.
LoadFails ==
  /\ pc' = IF conf = NoConf THEN "exited" ELSE "idle"
  /\ read' = <<>> /\ tcmds' = <<>> /\ tdevs' = NoConf.devs
  /\ UNCHANGED <<load, devID, conf, replaced, frees, overwritten>>

\* The parser or one of the functions below parseXMLFile() refuses the document, which
\* may be because of a <device> that is not declared or of a <commands> without a command.
Refused == pc = "reading" /\ LoadFails

\* Every device gets a copy of the defaults it has no command of that name for.
CopyDefault(devs, c) ==
  [d \in DOMAIN devs |->
     IF getCommandNode(devs[d], c.strings["name"].text) # 0 THEN devs[d]
     ELSE Append(devs[d], [type |-> Copy, strings |-> c.strings])]

Merged == FoldLeft(CopyDefault, tdevs, tcmds)

\* The places in all lists, each with the list it is in, and the node at a place.
Places(c) == {<<"default", i>> : i \in DOMAIN c.cmds}
               \cup UNION {{<<d, i>> : i \in DOMAIN c.devs[d]} : d \in DOMAIN c.devs}
Node(c, place) == IF place[1] = "default" THEN c.cmds[place[2]]
                  ELSE c.devs[place[1]][place[2]]

\* How often a string is freed when all lists are.
FreedWith(c, s) ==
  Quantify(Places(c) \X Fields,
           LAMBDA x : LET node == Node(c, x[1])
                      IN /\ x[2] \in Owns(node.type) \cap DOMAIN node.strings
                         /\ node.strings[x[2]] = s)

freeAllLists == frees' = [s \in DOMAIN frees |-> frees[s] + FreedWith(conf, s)]

\* Variant: the old lists are freed before the default device is looked up.
NoDefaultDevice_FreesFirst ==
  /\ pc = "reading" /\ devID \notin DOMAIN tdevs
  /\ freeAllLists
  /\ pc' = IF conf = NoConf THEN "exited" ELSE "idle"
  /\ read' = <<>> /\ tcmds' = <<>> /\ tdevs' = NoConf.devs
  /\ UNCHANGED <<load, devID, conf, replaced, overwritten>>

\* The default device is looked up last, before anything is replaced.
NoDefaultDevice == pc = "reading" /\ devID \notin DOMAIN tdevs /\ LoadFails

\* A document need not have <commands> at all.
Install ==
  /\ pc = "reading" /\ devID \in DOMAIN tdevs
  /\ freeAllLists
  /\ conf' = [load |-> load, cmds |-> tcmds, devs |-> Merged, read |-> read]
  /\ replaced' = IF conf = NoConf THEN replaced ELSE replaced \cup {conf.load}
  /\ pc' = "compile" /\ tcmds' = <<>> /\ tdevs' = NoConf.devs /\ read' = <<>>
  /\ UNCHANGED <<load, devID, overwritten>>

-----------------------------------------------------------------------------
(* compileCommand(): the nodes of the devices that have an address.        *)
Compiled == {x \in Places(conf) : x[1] # "default" /\ "addr" \in DOMAIN Node(conf, x).strings}

\* The node when it has been compiled.
Sent(d, i) == LET node == conf.devs[d][i]
              IN IF <<d, i>> \in Compiled
                   THEN [node EXCEPT !.strings = Put(@, "send", SendString(d, i))] ELSE node

Compile ==
  /\ pc = "compile"
  /\ \A x \in Compiled : Node(conf, x).strings["pcmd"].text \in DefinedPcmd
  /\ conf' = [conf EXCEPT !.devs = [d \in DOMAIN @ |-> [i \in DOMAIN @[d] |-> Sent(d, i)]]]
  /\ Allocate({SendString(x[1], x[2]) : x \in Compiled})
  /\ pc' = "idle"
  /\ UNCHANGED <<load, read, tcmds, tdevs, devID, replaced, overwritten>>

\* exit(3), for a protocol command that is not defined; or, depending on what is left
\* out here, for a unit or a variable that is not.
CompileExits ==
  /\ pc = "compile" /\ Compiled # {}
  /\ pc' = "exited"
  /\ UNCHANGED <<load, read, tcmds, tdevs, devID, conf, replaced, frees, overwritten>>

-----------------------------------------------------------------------------
ReadElement ==
  /\ pc = "reading" /\ Len(read) < MaxElements[load]
  /\ \/ \E n \in Name, p \in Pcmd : ReadCommand(n, p)
     \/ \E f \in Given : ReadField(f)
     \/ \E d \in Device, fields \in SUBSET (Given \ {"description"}) :
          \E lost \in SUBSET (fields \cup (Given \cap {"description"})),
             protocmd \in {{}} \cup {{p} : p \in Pcmd} : ReadDevice(d, fields, lost, protocmd)

Next == BeginLoad \/ ReadElement \/ Refused \/ NoDefaultDevice \/ Install
          \/ Compile \/ CompileExits

Spec == Init /\ [][Next]_vars

-----------------------------------------------------------------------------
(* What a document says, without lists.                                    *)

\* The command an element belongs to, as its place in the document.
CommandOf(doc, i) == Max({j \in 1..i : doc[j].is = "command"})

\* The place of the definition that a document has for a command on a device: the
\* first of the device's own, or else the first default; 0 if there is none.
Definition(doc, d, n) ==
  LET ofName   == {i \in DOMAIN doc : doc[CommandOf(doc, i)].name = n}
      own      == {i \in ofName : doc[i].is = "device" /\ doc[i].dev = d}
      defaults == {i \in ofName : doc[i].is = "command"}
  IN CASE own # {}                   -> Min(own)
       [] own = {} /\ defaults # {} -> Min(defaults)
       [] OTHER                      -> 0

\* Elements of the command at place j among the elements up to place k.
FieldsUpTo(doc, j, k) ==
  {doc[i].field : i \in {i \in j..k : doc[i].is = "field" /\ CommandOf(doc, i) = j}}
    \ {"description"}

\* What the definition at place i says: each field with its text.
Says(doc, d, i) ==
  LET j == CommandOf(doc, i)
  IN IF doc[i].is = "command"
       THEN [f \in {"pcmd"} \cup FieldsUpTo(doc, j, Len(doc)) |->
               IF f = "pcmd" THEN doc[i].pcmd ELSE "default"]
       ELSE [f \in {"pcmd"} \cup doc[i].fields \cup ({"unit"} \cap FieldsUpTo(doc, j, i)) |->
               CASE f = "pcmd" /\ doc[i].protocmd = {} -> doc[j].pcmd
                 [] f = "pcmd" /\ doc[i].protocmd # {} -> CHOOSE p \in doc[i].protocmd : TRUE
                 [] f \in doc[i].fields              -> d
                 [] OTHER                            -> "default"]

\* The same for a node: the texts its fields point to.
Texts(node) == [f \in (DOMAIN node.strings) \ {"name", "description", "send"} |->
                  node.strings[f].text]

-----------------------------------------------------------------------------
(* Properties.                                                             *)

\* A node with the name, the description and the protocol command that lookup, byte code
\* and compiler follow without asking whether they are there.
IsNode(node, types) ==
  /\ node.type \in types /\ DOMAIN node.strings \subseteq Fields
  /\ {"name", "description", "pcmd"} \subseteq DOMAIN node.strings

TypeOK ==
  /\ pc \in {"idle", "reading", "compile", "exited"} /\ load \in 0..Len(MaxElements)
  /\ replaced \subseteq 1..load /\ devID \in Device
  /\ \A s \in DOMAIN frees : frees[s] \in Nat
  /\ overwritten \subseteq DOMAIN frees
  /\ \A i \in DOMAIN tcmds : IsNode(tcmds[i], {Default})
  /\ \A d \in DOMAIN tdevs : \A i \in DOMAIN tdevs[d] : IsNode(tdevs[d][i], {Override})
  /\ \A x \in Places(conf) :
       IsNode(Node(conf, x), IF x[1] = "default" THEN {Default} ELSE {Override, Copy})

\* When a configuration is replaced, each of its strings is freed once: the nodes that share
\* one do not free it again, and no node forgets its own.  No other string is freed ever:
\* what leaks are the strings that a repeated element has taken the place of, and those of
\* the documents that were refused.
FreedWithItsConfiguration ==
  \A s \in DOMAIN frees :
    frees[s] = IF s.load \in replaced /\ s \notin overwritten THEN 1 ELSE 0

\* No list in force or under construction points to a string that has been freed.
NothingDangles ==
  \A c \in {conf, [conf EXCEPT !.cmds = tcmds, !.devs = tdevs]} :
    \A x \in Places(c) : \A s \in Range(Node(c, x).strings) :
      s \in DOMAIN frees /\ frees[s] = 0

\* Looking up a command of a device finds what the document in force says of it: the
\* device's own definition before the default, wherever they stand and however often,
\* with what it inherits and nothing more; and it is compiled if it has an address.
LookupFindsDefinition ==
  pc = "idle" => \A d \in DOMAIN conf.devs : \A n \in Name :
    LET i == getCommandNode(conf.devs[d], n)
        j == Definition(conf.read, d, n)
    IN /\ i = 0 <=> j = 0
       /\ i # 0 => /\ Texts(conf.devs[d][i]) = Says(conf.read, d, j)
                   /\ "send" \in DOMAIN conf.devs[d][i].strings
                        <=> "addr" \in DOMAIN Texts(conf.devs[d][i])
=============================================================================
