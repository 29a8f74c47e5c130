---------------------------- MODULE CwmpIncoming ----------------------------
(***************************************************************************)
(* What handleIncomingMessage makes of a POST before it looks at sessions: *)
(* the envelope is parsed, its namespaces and CWMP header are checked, and *)
(* an Inform is given a CWMP version.                                      *)
(***************************************************************************)
EXTENDS SoapEnvelope, CwmpVersions

CONSTANTS
    VersionLists,   \* values of the header SupportedCWMPVersions, <<>> for none
    NamespaceSets   \* the sets of known namespaces an Envelope may declare

ASSUME VersionListsAssumption == <<>> \in VersionLists /\ VersionLists \subseteq Seq(Entries)

VARIABLES
    verdict,     \* what became of the POST, or "pending"
    supported,   \* SupportedCWMPVersions of the Inform that was taken
    version      \* the CwmpVersion of its session

incomingVars == <<envelopeVars, verdict, supported, version>>

IncomingTypeOK ==
    /\ EnvelopeTypeOK
    /\ verdict \in {"pending", "XmlParsingError", "NoChild", "BadHeader", "Inform", "Message"}
    /\ supported \in VersionLists
    /\ version \in AllVersions \cup {UNKNOWN_CWMP_VERSION}

IncomingInit ==
    /\ EnvelopeInit
    /\ verdict = "pending" /\ supported = <<>> /\ version = UNKNOWN_CWMP_VERSION

ParseStep ==
    /\ verdict = "pending" /\ EnvelopeNext
    /\ UNCHANGED <<verdict, supported, version>>

\* The POST is done with; the parser's variables are gone.
Decide(what, list, v) ==
    /\ verdict = "pending"
    /\ verdict' = what /\ supported' = list /\ version' = v
    /\ doc' = <<>> /\ path' = <<>> /\ built' = <<>>
    /\ envelope' = None /\ header' = None /\ body' = None
    /\ inHeader' = FALSE /\ inBody' = FALSE
    /\ headerStack' = <<>> /\ bodyStack' = <<>> /\ texts' = {}
    /\ outcome' = "parsing"

\* BuildNamespaceMap ranges over a map: of several CWMP namespaces that the
\* Envelope declares, any may be the one it keeps.
BuildNamespaceMap(declared) == declared \cap CwmpUrls

isValidNamespaceMap(declared) ==
    /\ {"SOAPENV", "SOAPENC", "XSD", "XSI"} \subseteq declared
    /\ BuildNamespaceMap(declared) # {}

\* The tests of UseCWMPVersion and HoldRequests never fail: ParseCPEHeader does
\* not fill these fields.
isHeaderValidForMessageType(list, hasSessionTimeout, messageType) ==
    messageType # "Inform" => list = <<>> /\ ~hasSessionTimeout

RefuseDocument ==
    /\ \/ outcome = "rejected"
       \/ outcome = "accepted" /\ \E declared \in NamespaceSets : ~isValidNamespaceMap(declared)
    /\ Decide("XmlParsingError", <<>>, UNKNOWN_CWMP_VERSION)

BodyChildren == {n \in DOMAIN built : built[n] = body}

\* Children[0] of an empty Body: the handler panics.
ReadNoChild ==
    /\ outcome = "accepted" /\ BodyChildren = {}
    /\ \E declared \in NamespaceSets : isValidNamespaceMap(declared)
    /\ Decide("NoChild", <<>>, UNKNOWN_CWMP_VERSION)

\* The name of the first child is the message type.
TakeMessage ==
    /\ outcome = "accepted" /\ BodyChildren # {}
    /\ \E declared \in NamespaceSets : isValidNamespaceMap(declared)
    /\ \E list \in VersionLists, hasSessionTimeout \in BOOLEAN :
        Decide(IF isHeaderValidForMessageType(list, hasSessionTimeout, "Message")
               THEN "Message" ELSE "BadHeader", <<>>, UNKNOWN_CWMP_VERSION)

TakeInform ==
    /\ outcome = "accepted" /\ BodyChildren # {}
    /\ \E declared \in NamespaceSets : /\ isValidNamespaceMap(declared)
        /\ \E list \in VersionLists, url \in BuildNamespaceMap(declared),
              hasSessionTimeout \in BOOLEAN :
            Decide("Inform", list, determineCwmpVersion(list, url, hasSessionTimeout))

IncomingNext ==
    \/ ParseStep
    \/ RefuseDocument
    \/ ReadNoChild
    \/ TakeMessage
    \/ TakeInform

IncomingSpec == IncomingInit /\ [][IncomingNext]_incomingVars

-----------------------------------------------------------------------------

\* Only a document with an Envelope, one Header, one Body and an element in it
\* gets as far as a session.
TakenHasStructure ==
    [][verdict = "pending" /\ verdict' \in {"Inform", "Message", "BadHeader"}
       => /\ AcceptedHasStructure /\ outcome = "accepted"
          /\ \E n \in DOMAIN doc : doc[n].parent = body \/ ~HeaderOutsideBody]_incomingVars

\* The version of a session is the highest one that is both in the list of the
\* CPE and available, whatever the order of the list and the junk in it, and
\* unknown only if there is none.
HighestCommonVersion ==
    verdict = "Inform" /\ supported # <<>> =>
        LET common == {v \in AllVersions :
                          \E i \in DOMAIN supported : supported[i] = <<1, VersionMinor(v)>>}
        IN  IF common = {} THEN version = UNKNOWN_CWMP_VERSION
            ELSE version \in common /\ \A v \in common : v <= version
=============================================================================
