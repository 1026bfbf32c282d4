--------------------------- MODULE MCSandboxStore ---------------------------
(* Small instances of SandboxStore for TLC.                                *)
EXTENDS SandboxStore

CONSTANTS G, R, S,      \* Realms
          x, y,         \* bare ids
          t             \* a template

\* The template of the launches has two members, or one.
TwoMembers == <<x, y>>
OneMember  == <<x>>
=============================================================================
