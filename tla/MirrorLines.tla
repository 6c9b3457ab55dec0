----------------------------- MODULE MirrorLines -----------------------------
(* The entries of the files that say where packages come from, by what the *)
(* rewriting of lkit set-mirror tells apart.                               *)

Comps == {"main", "contrib"}

(* kind, enabled, host, repository, components; list: a mirrorlist= line.   *)
Entry(kind, on, h, repo, comps, list) ==
  [kind |-> kind, on |-> on, host |-> h, repo |-> repo, comps |-> comps, list |-> list]
Mark(kind) == <<Entry(kind, FALSE, "none", "none", {}, FALSE)>>
Absent == Mark("absent")
Torn == Mark("torn")
Keep == Mark("keep")

Deb(on, h, repo, comps) == Entry("deb", on, h, repo, comps, FALSE)
Cdrom(on) == Entry("cdrom", on, "none", "main", Comps, FALSE)
Blank == Entry("blank", TRUE, "none", "none", {}, FALSE)
Repo(on, h, list) == Entry("repo", on, h, "main", Comps, list)
Server(on, h) == Entry("server", on, h, "main", Comps, FALSE)
==============================================================================
