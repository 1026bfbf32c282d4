-------------------------- MODULE MCAgentAuthority --------------------------
(* A small instance of AgentAuthority for TLC.                             *)
EXTENDS AgentAuthority

CONSTANTS p1, q1, p2,  \* keys: p and q in Realm R1, p in Realm R2
          p, q, R1, R2,
          a, b         \* two tools

MCIdOf    == [k \in Key |-> IF k = q1 THEN q ELSE p]
MCRealmOf == [k \in Key |-> IF k = p2 THEN R2 ELSE R1]

NoSelector == [realms |-> {}, targets |-> {}, ownSpawns |-> FALSE, realmMembers |-> FALSE,
               fields |-> {}]
InRealm    == [NoSelector EXCEPT !.realmMembers = TRUE]
Across     == [NoSelector EXCEPT !.realms = {R1}, !.targets = {q}, !.fields = {"tools"}]
MCScope    == {InRealm, Across}

Plain     == [defaults |-> FALSE, tools |-> {b}, privileged |-> FALSE, bypass |-> FALSE,
              grant |-> NoScope, parent |-> NoId]
Child1    == [Plain EXCEPT !.tools = {a, b}, !.parent = p]
Editor    == [Plain EXCEPT !.grant = InRealm]
Admin     == [Plain EXCEPT !.privileged = TRUE]
MCRequest == {Child1, [Plain EXCEPT !.defaults = TRUE], [Plain EXCEPT !.tools = {Star, Lifecycle}]}
MCCharter == [k \in Key |-> IF k = q1 THEN Child1 ELSE IF k = p2 THEN Admin ELSE Editor]

Privilege(on) == [fields |-> {"privilege"}, tools |-> {}, privileged |-> on]
MCPatch       == {[fields |-> {"tools"}, tools |-> {b}, privileged |-> FALSE],
                  Privilege(TRUE), Privilege(FALSE)}
=============================================================================
