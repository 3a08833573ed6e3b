---------------------------- MODULE MCClientPages ----------------------------
(***************************************************************************)
(* ClientPages with every single role, no role, two pairs of roles whose   *)
(* permissions complete each other, and one change of roles.               *)
(***************************************************************************)
EXTENDS ClientPages

MCRoleSets == {{}, {"administrator"}, {"data_steward"}, {"analyst"},
               {"recruiter"}, {"regular_user"},
               {"administrator", "data_steward"}, {"analyst", "recruiter"}}
==============================================================================
