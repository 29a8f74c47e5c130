---------------------------- MODULE SoapEnvelope ----------------------------
(***************************************************************************)
(* ParseSOAPEnvelope (internal/xml/parser.go): one pass over the tokens of *)
(* a document, with a stack of open elements for the Header and one for    *)
(* the Body.  The decoder of encoding/xml chooses the tokens; it matches   *)
(* start and end tags but lets several elements stand at the top level.    *)
(*                                                                         *)
(* An element is its number in document order; its attributes are left     *)
(* out.  A text is where it stands in the document and where it went.      *)
(***************************************************************************)
EXTENDS Integers, Sequences, FiniteSets

CONSTANTS
    MaxElements,  \* bounds of the model: elements in a document
    MaxTexts      \* and texts

ASSUME EnvelopeAssumption == MaxElements \in Nat /\ MaxTexts \in Nat

VARIABLES
    doc,          \* the document so far: name and parent of every element
    path,         \* the decoder's open elements, the innermost last
    envelope,     \* parsed.Envelope, parsed.Header and parsed.Body: the element
    header,       \*   each was made from, None while its Name is empty
    body,
    inHeader, inBody,
    headerStack, bodyStack,
    built,        \* the parent whose Children an element was appended to, or None
    texts,        \* the element each text stands in and those it was appended to;
                  \*   followed only as long as the document is parsed
    outcome       \* "parsing", "accepted" or "rejected"

treeVars == <<envelope, header, body, built>>
stackVars == <<inHeader, inBody, headerStack, bodyStack>>
envelopeVars == <<doc, path, treeVars, stackVars, texts, outcome>>

\* The names the parser tells apart: three of the SOAP namespace and the rest.
Names == {"Envelope", "Header", "Body", "Other"}

None == 0
Elements == 1 .. MaxElements

Top(stack) == stack[Len(stack)]
Pop(stack) == SubSeq(stack, 1, Len(stack) - 1)

\* The parser reads the top of a stack in use without a test for emptiness.
EnvelopeTypeOK ==
    /\ doc \in Seq([name : Names, parent : Elements \cup {None}])
    /\ Len(doc) <= MaxElements
    /\ path \in Seq(Elements)
    /\ {envelope, header, body} \subseteq Elements \cup {None}
    /\ inHeader \in BOOLEAN /\ inBody \in BOOLEAN
    /\ headerStack \in Seq(Elements) /\ (headerStack = <<>> <=> ~inHeader)
    /\ bodyStack \in Seq(Elements) /\ (bodyStack = <<>> <=> ~inBody)
    /\ built \in Seq(Elements \cup {None}) /\ Len(built) = Len(doc)
    /\ texts \subseteq [in : Elements \cup {None}, to : SUBSET Elements]
    /\ outcome \in {"parsing", "accepted", "rejected"}

EnvelopeInit ==
    /\ doc = <<>> /\ path = <<>> /\ built = <<>>
    /\ envelope = None /\ header = None /\ body = None
    /\ inHeader = FALSE /\ inBody = FALSE
    /\ headerStack = <<>> /\ bodyStack = <<>> /\ texts = {}
    /\ outcome = "parsing"

-----------------------------------------------------------------------------
(* Start tags, in the order of the tests. *)

\* The decoder returns a StartElement of this name as element Len(doc) + 1,
\* which the parser makes a child of parent.
Start(name, parent) ==
    /\ outcome = "parsing" /\ Len(doc) < MaxElements
    /\ doc' = Append(doc, [name |-> name,
                           parent |-> IF path = <<>> THEN None ELSE Top(path)])
    /\ path' = Append(path, Len(doc) + 1)
    /\ built' = Append(built, parent)

New == Len(doc) + 1

StartEnvelope ==
    /\ envelope = None
    /\ Start("Envelope", None)
    /\ envelope' = New
    /\ UNCHANGED <<header, body, stackVars, texts, outcome>>

StartHeader ==
    /\ envelope # None /\ header = None
    /\ Start("Header", None)
    /\ header' = New
    /\ inHeader' = TRUE
    /\ headerStack' = <<New>>
    /\ UNCHANGED <<envelope, body, inBody, bodyStack, texts, outcome>>

\* A Body inside the Header is an element like any other.
StartInHeader ==
    /\ envelope # None /\ inHeader
    /\ \E name \in Names \ {"Header"} : Start(name, Top(headerStack))
    /\ headerStack' = Append(headerStack, New)
    /\ UNCHANGED <<envelope, header, body, inHeader, inBody, bodyStack, texts, outcome>>

StartBody ==
    /\ envelope # None /\ ~inHeader /\ body = None
    /\ Start("Body", None)
    /\ body' = New
    /\ inBody' = TRUE
    /\ bodyStack' = <<New>>
    /\ UNCHANGED <<envelope, header, inHeader, headerStack, texts, outcome>>

\* Mutant: the element does not become the parent of those inside it.
StartInBody_Flat ==
    /\ envelope # None /\ ~inHeader /\ inBody
    /\ \E name \in {"Envelope", "Other"} : Start(name, Top(bodyStack))
    /\ bodyStack' = Append(bodyStack, Top(bodyStack))
    /\ UNCHANGED <<envelope, header, body, inHeader, inBody, headerStack, texts, outcome>>

StartInBody ==
    /\ envelope # None /\ ~inHeader /\ inBody
    /\ \E name \in {"Envelope", "Other"} : Start(name, Top(bodyStack))
    /\ bodyStack' = Append(bodyStack, New)
    /\ UNCHANGED <<envelope, header, body, inHeader, inBody, headerStack, texts, outcome>>

\* Outside Header and Body nothing is kept.
StartElsewhere ==
    /\ envelope # None /\ ~inHeader /\ ~inBody
    /\ \E name \in {"Envelope", "Other"} : Start(name, None)
    /\ UNCHANGED <<envelope, header, body, stackVars, texts, outcome>>

\* A document that does not begin with an Envelope, a second Header, or a
\* second Body outside the Header.
RejectStart ==
    /\ \/ envelope = None /\ \E name \in Names \ {"Envelope"} : Start(name, None)
       \/ envelope # None /\ header # None /\ Start("Header", None)
       \/ envelope # None /\ ~inHeader /\ body # None /\ Start("Body", None)
    /\ outcome' = "rejected" /\ texts' = {}
    /\ UNCHANGED <<envelope, header, body, stackVars>>

-----------------------------------------------------------------------------
(* Text, end tags and the end of the document. *)

\* Text that is not white space goes to the top of each stack in use.
CharData ==
    /\ outcome = "parsing" /\ Cardinality(texts) < MaxTexts
    /\ texts' = texts \cup
          {[in |-> IF path = <<>> THEN None ELSE Top(path),
            to |-> {n \in Elements : \/ inHeader /\ n = Top(headerStack)
                                     \/ inBody /\ n = Top(bodyStack)}]}
    /\ UNCHANGED <<doc, path, treeVars, stackVars, outcome>>

\* Mutant: an end tag in the Header does not pop.
EndElement_KeepsHeader ==
    /\ outcome = "parsing" /\ path # <<>>
    /\ path' = Pop(path)
    /\ headerStack' = IF inHeader /\ Len(headerStack) = 1 THEN <<>> ELSE headerStack
    /\ inHeader' = (inHeader /\ Len(headerStack) > 1)
    /\ bodyStack' = IF inBody THEN Pop(bodyStack) ELSE bodyStack
    /\ inBody' = (inBody /\ Len(bodyStack) > 1)
    /\ UNCHANGED <<doc, treeVars, texts, outcome>>

\* Mutant: the end of the Body's own element is not noticed.
EndElement_StaysInBody ==
    /\ outcome = "parsing" /\ path # <<>>
    /\ path' = Pop(path)
    /\ headerStack' = IF inHeader THEN Pop(headerStack) ELSE headerStack
    /\ inHeader' = (inHeader /\ Len(headerStack) > 1)
    /\ bodyStack' = IF inBody THEN Pop(bodyStack) ELSE bodyStack
    /\ UNCHANGED <<doc, treeVars, inBody, texts, outcome>>

\* Each stack in use is popped; the element it began with ends its part.
EndElement ==
    /\ outcome = "parsing" /\ path # <<>>
    /\ path' = Pop(path)
    /\ headerStack' = IF inHeader THEN Pop(headerStack) ELSE headerStack
    /\ inHeader' = (inHeader /\ Len(headerStack) > 1)
    /\ bodyStack' = IF inBody THEN Pop(bodyStack) ELSE bodyStack
    /\ inBody' = (inBody /\ Len(bodyStack) > 1)
    /\ UNCHANGED <<doc, treeVars, texts, outcome>>

\* Any error of the decoder but io.EOF.
DecoderError ==
    /\ outcome = "parsing"
    /\ outcome' = "rejected" /\ texts' = {}
    /\ UNCHANGED <<doc, path, treeVars, stackVars>>

\* Mutant: the test for the Body is missing.
EndDocument_AnyBody ==
    /\ outcome = "parsing" /\ path = <<>>
    /\ outcome' = IF envelope # None /\ header # None THEN "accepted" ELSE "rejected"
    /\ texts' = {}
    /\ UNCHANGED <<doc, path, treeVars, stackVars>>

EndDocument ==
    /\ outcome = "parsing" /\ path = <<>>
    /\ outcome' = IF None \notin {envelope, header, body} THEN "accepted" ELSE "rejected"
    /\ texts' = {}
    /\ UNCHANGED <<doc, path, treeVars, stackVars>>

EnvelopeNext ==
    \/ StartEnvelope
    \/ StartHeader
    \/ StartInHeader
    \/ StartBody
    \/ StartInBody
    \/ StartElsewhere
    \/ RejectStart
    \/ CharData
    \/ EndElement
    \/ DecoderError
    \/ EndDocument

EnvelopeSpec == EnvelopeInit /\ [][EnvelopeNext]_envelopeVars

-----------------------------------------------------------------------------
(* Properties.  The reference is the document itself. *)

Ancestors ==
    LET above[n \in DOMAIN doc] ==
            IF doc[n].parent = None THEN {} ELSE {doc[n].parent} \cup above[doc[n].parent]
    IN  above

\* SOAP puts the Header before the Body, beside it.  A Header element inside
\* the Body opens the Header's stack while the Body's is in use.
HeaderOutsideBody == header # None => body \notin Ancestors[header]

\* The trees of Header and Body are those of the document: each element inside
\* has the parent and the text it has there, none is lost, and none from
\* elsewhere gets in.
TreesMirrorDocument ==
    HeaderOutsideBody /\ outcome # "rejected" =>
        /\ \A n \in DOMAIN doc :
              built[n] = IF {header, body} \cap Ancestors[n] # {} THEN doc[n].parent ELSE None
        /\ \A text \in texts :
              text.to = {n \in {text.in} \ {None} :
                            {header, body} \cap ({n} \cup Ancestors[n]) # {}}

\* The stacks end as the path of open elements does, for as long as each is used.
StacksFollowPath ==
    HeaderOutsideBody /\ outcome = "parsing" =>
        /\ inHeader => \E k \in DOMAIN path : path[k] = header
                                  /\ headerStack = SubSeq(path, k, Len(path))
        /\ inBody => \E k \in DOMAIN path : path[k] = body
                                  /\ bodyStack = SubSeq(path, k, Len(path))

Named(name) == {n \in DOMAIN doc : doc[n].name = name}

\* "at least the basic structure": an accepted document begins with an Envelope,
\* has one Header, and one Body outside it.
AcceptedHasStructure ==
    outcome = "accepted" =>
        /\ doc[1].name = "Envelope"
        /\ Named("Header") = {header}
        /\ {n \in Named("Body") : header \notin Ancestors[n]} = {body}
=============================================================================
