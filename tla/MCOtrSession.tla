---------------------------- MODULE MCOtrSession ----------------------------
(* Values for the constants of OtrSession. *)
EXTENDS OtrSession

CONSTANTS s1, s2, i1, i2

DefaultFlags == {"ALLOW", "SEND_WHITESPACE_TAG", "WHITESPACE_START_AKE", "ERROR_START_AKE"}
AlwaysFlags == {"ALLOW", "REQUIRE_ENCRYPTION", "WHITESPACE_START_AKE", "ERROR_START_AKE"}

\* Sessions with the default policy; next to one, a session that requires
\* encryption or allows no conversation at all.
DefaultPolicies == [s \in Sessions |-> {DefaultFlags}]
MixedPolicies == [s \in Sessions |-> IF s = s1 THEN {DefaultFlags} ELSE {AlwaysFlags, {}}]

AllWire == Incoming

\* The key exchange the session answers and the end of the conversation.
AnswerWire == [type : {"dhcommit", "revealsig", "bye"}, from : Instances]
=============================================================================
