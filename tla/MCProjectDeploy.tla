------------------------- MODULE MCProjectDeploy -------------------------
(* Deployments of one project, one after the other, as users ask for them. *)
EXTENDS ProjectDeploy

Ask(only, skipped) == [only |-> only, skip |-> skipped]

\* the git hook's own request, one with notifications, one that only installs, and the two
\* that do without a safety net
MCRequests ==
  {Ask({}, {"notify"}), Ask({}, {}), Ask({"install"}, {}), Ask({}, {"archive", "notify"}),
   Ask({}, {"rollback", "rotate_archives"}), Ask({}, {"deploy"}), Ask({}, {"release_sync"})}
=============================================================================
