------------------------------ MODULE MCGrants ------------------------------
(* Grants on a small instance: a manifest may write names with spaces or from
   the reserved namespace; providers hold sound and broken families. *)
EXTENDS Grants

MCWritten == {"core.net", " core.net", "core.fs", "sys.timer", "sys.now", " sys.declassify", " "}
MCTrimmed == [name \in MCWritten |->
                CASE name = " core.net"       -> "core.net"
                  [] name = " sys.declassify" -> "sys.declassify"
                  [] name = " "               -> ""
                  [] OTHER                    -> name]
MCNames   == {"core.net", "core.fs", "sys.timer", "sys.now", "sys.random", "sys.begin", "sys.declassify"}
MCBodies  == {"b", "c"}
MCCases   == {"", "get", "put"}

Entry(syscall, operation, discriminator, schema) ==
    [syscall |-> syscall, operation |-> operation, discriminator |-> discriminator, schema |-> schema]

AllCases == MCCases \cup {"malformed"}

(* Schemas by their text.  "get" and "put" pin the case; "object" and "any" are
   two texts of one meaning, and "body" accepts some of what they do. *)
MCAccepts == [text \in {"body", "get", "put", "object", "any"} |->
                CASE text = "body" -> AllCases \X {"b"}
                  [] text = "get"  -> {"get"} \X MCBodies
                  [] text = "put"  -> {"put"} \X MCBodies
                  [] OTHER         -> AllCases \X MCBodies]

(* Two methods that share one schema, two cases with schemas that pin them, two
   with schemas that overlap, two with one schema in two texts, a single
   operation, one without a schema, names of the runtime's, and families the
   table refuses. *)
Methods    == {Entry("core.net", m, "method", "body") : m \in {"get", "put"}}
Pinned     == {Entry("core.net", m, "method", m) : m \in {"get", "put"}}
Overlap    == {Entry("core.net", "get", "method", "object"), Entry("core.net", "put", "method", "body")}
Respelt    == {Entry("core.fs", "get", "operation", "object"), Entry("core.fs", "put", "operation", "any")}
Single     == {Entry("core.fs", "", "", "body")}
Open       == {Entry("core.fs", "get", "operation", NoSchema), Entry("core.fs", "put", "operation", "put")}
Shadow     == {Entry("sys.now", "", "", NoSchema)}
Declassify == {Entry("sys.declassify", "", "", NoSchema)}
Mixed      == {Entry("core.net", "", "", NoSchema), Entry("core.fs", "", "", NoSchema)}
Unnamed    == {Entry("core.fs", "get", "", NoSchema)}
Twice      == {Entry("core.fs", "", "", NoSchema), Entry("core.fs", "", "", "body")}

MCFamilies == {Methods, Pinned, Overlap, Respelt, Single, Open, Shadow, Declassify, Mixed, Unnamed, Twice}
=============================================================================
