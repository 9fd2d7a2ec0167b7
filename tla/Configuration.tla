--------------------------- MODULE Configuration ---------------------------
(***************************************************************************)
(* From a TOML file and the program's Components to a topology:            *)
(* NewConfigFromToml (config.go) looks up the components, decodes their    *)
(* sections and settles the field names, the validation and the defaults;  *)
(* NewTopologyFromConfig (topology.go) then makes the components, the      *)
(* channels and the sharding.  Each step checks what it needs and the      *)
(* first that is not satisfied ends it, with an error or a panic.          *)
(*                                                                         *)
(* A section is the set of the keys it sets to something else than their   *)
(* zero value, or NoSection, or IllTyped.  Names are compared as they are  *)
(* (the code folds case), "" is the absent name.                           *)
(***************************************************************************)
EXTENDS Integers, Sequences, FiniteSets

CONSTANTS TomlFiles,      \* the files, with what the program's Components say
          Known,          \* kind of component -> the names there are
          Required,       \* name -> its required keys
          Shards,         \* fields with a sharding function
          NoSection, IllTyped

ConfigAssumption ==
    \A t \in TomlFiles :
        /\ {t.procs, t.filterProcs, t.inChan, t.outChan} \subseteq Int
        /\ {t.compByName, t.compNames} \subseteq BOOLEAN
        /\ "" \notin t.refused

VARIABLES toml,     \* the file
          step,     \* the next step, or "error", "panic", "topology"
          fields,   \* the field names in force
          sizes     \* procs and capacities in force

configvars == <<toml, step, fields, sizes>>

ConfigInit ==
    /\ toml \in TomlFiles
    /\ step = "names" /\ fields = <<>>
    /\ sizes = [procs |-> toml.procs, filterProcs |-> toml.filterProcs,
                inChan |-> toml.inChan, outChan |-> toml.outChan]

HasField(f) == \E i \in DOMAIN fields : fields[i] = f

(* One step: the first of its problems that there is decides.               *)
Go(from, to, fatal, wrong) ==
    /\ step = from
    /\ step' = IF fatal THEN "panic" ELSE IF wrong THEN "error" ELSE to
    /\ UNCHANGED toml

(* The names of the components.  An upload may be left out, and one that    *)
(* does not exist is not noticed here.                                      *)
MatchNames ==
    /\ Go("names", "sections", FALSE,
          \/ toml.input.name \notin Known.input
          \/ \E i \in DOMAIN toml.filters : toml.filters[i].name \notin Known.filter
          \/ toml.output.name \notin Known.output
          \/ toml.metrics.name \notin Known.metrics \cup {""})
    /\ UNCHANGED <<fields, sizes>>

(* Fault: without a section there is nothing to check.                      *)
BadSectionIfAny(comp) ==
    /\ comp.section # NoSection
    /\ comp.section = IllTyped \/ ~(Required[comp.name] \subseteq comp.section)

(* decodeAndCheckConfig, RequiredFields and CheckRequiredFields.            *)
BadSection(comp) ==
    \/ comp.section = IllTyped
    \/ ~(Required[comp.name] \subseteq IF comp.section = NoSection THEN {} ELSE comp.section)

(* The sections, in this order; the descriptor of an unknown upload is nil. *)
DecodeSections ==
    LET before == \/ BadSection(toml.input) \/ BadSection(toml.output)
                  \/ \E i \in DOMAIN toml.filters : BadSection(toml.filters[i])
        unknown == toml.upload.name \notin Known.upload \cup {""}
    IN  /\ Go("sections", "user", ~before /\ unknown,
              \/ before
              \/ ~unknown /\ toml.upload.name # "" /\ BadSection(toml.upload)
              \/ toml.metrics.name # "" /\ BadSection(toml.metrics))
        /\ UNCHANGED <<fields, sizes>>

(* The user's entries, one after the other, then the keys nobody decoded.   *)
BadUser(u) == u.name \notin Known.user \/ u.section = IllTyped
DecodeUser ==
    LET crashes(i) == toml.user[i].name \in Known.user /\ toml.user[i].section = NoSection
    IN  /\ Go("user", "fields",
              \E i \in DOMAIN toml.user :
                  crashes(i) /\ \A j \in 1..i - 1 : ~BadUser(toml.user[j]),
              (\E i \in DOMAIN toml.user : BadUser(toml.user[i])) \/ toml.unknownKeys)
        /\ UNCHANGED <<fields, sizes>>

(* assignFieldMapping: the file or the program, but not both.               *)
Distinct(s) == \A i, j \in DOMAIN s : i # j => s[i] # s[j]
AssignFields ==
    LET compOk == toml.compByName /\ toml.compNames
    IN  /\ Go("fields", "validation", FALSE,
              \/ toml.compByName # toml.compNames
              \/ (toml.fields # <<>>) = compOk
              \/ ~Distinct(toml.fields))
        /\ fields' = IF compOk THEN toml.compFields ELSE toml.fields
        /\ UNCHANGED sizes

(* assignValidationMapping.                                                 *)
AssignValidation ==
    /\ Go("validation", "defaults", FALSE,
          \/ toml.compValidate /\ toml.validation # {}
          \/ \E v \in toml.validation : ~HasField(v.field) \/ ~v.compiles)
    /\ UNCHANGED <<fields, sizes>>

(* fillDefaults: only what is zero is filled.                               *)
Default == [procs |-> 32, filterProcs |-> 16, inChan |-> 1024, outChan |-> 16384]
FillDefaults ==
    /\ Go("defaults", "components", FALSE,
          ~toml.createRecord /\ toml.separator \notin {"", "1"})
    /\ sizes' = [k \in DOMAIN sizes |-> IF sizes[k] = 0 THEN Default[k] ELSE sizes[k]]
    /\ UNCHANGED fields

(* The metrics client, the input and the filters are made.                  *)
NewComponents ==
    /\ Go("components", "outputs", FALSE,
          toml.refused \cap ({toml.metrics.name, toml.input.name}
              \cup {toml.filters[i].name : i \in DOMAIN toml.filters}) # {})
    /\ UNCHANGED <<fields, sizes>>

NewOutputs ==
    /\ Go("outputs", "channels", FALSE,
          \/ toml.outFields = <<>> /\ ~toml.raw
          \/ \E i \in DOMAIN toml.outFields : ~HasField(toml.outFields[i])
          \/ sizes.procs > 0 /\ toml.output.name \in toml.refused)
    /\ UNCHANGED <<fields, sizes>>

(* The channels and the sharding function.                                  *)
NewChannels ==
    LET cannot == toml.sharding # "" /\ \/ ~HasField(toml.sharding)
                                        \/ toml.sharding \notin Shards
                                        \/ ~toml.canShard
    IN  /\ Go("channels", "upload",
              sizes.inChan < 0 \/ sizes.procs < 0 \/ (~cannot /\ sizes.outChan < 0),
              cannot)
        /\ UNCHANGED <<fields, sizes>>

NewUpload ==
    /\ Go("upload", "topology", FALSE, toml.upload.name # "" /\ toml.upload.name \in toml.refused)
    /\ UNCHANGED <<fields, sizes>>

ConfigNext ==
    \/ MatchNames \/ DecodeSections \/ DecodeUser \/ AssignFields \/ AssignValidation
    \/ FillDefaults \/ NewComponents \/ NewOutputs \/ NewChannels \/ NewUpload
ConfigSpec == ConfigInit /\ [][ConfigNext]_configvars

Ended == step \in {"error", "panic", "topology"}

ConfigTypeOK ==
    /\ DOMAIN sizes = {"procs", "filterProcs", "inChan", "outChan"}
    /\ Ended \/ step \in {"names", "sections", "user", "fields", "validation", "defaults",
                          "components", "outputs", "channels", "upload"}

(* What a file must be for a topology to make sense, read off the comments  *)
(* of the configuration structures.                                         *)
Complete(kind, comp) ==
    /\ comp.name \in Known[kind] /\ comp.section # IllTyped
    /\ \A k \in Required[comp.name] : comp.section # NoSection /\ k \in comp.section
    /\ comp.name \notin toml.refused
Fields == IF toml.fields # <<>> THEN toml.fields ELSE toml.compFields

Sound ==
    /\ Complete("input", toml.input) /\ Complete("output", toml.output)
    /\ \A i \in DOMAIN toml.filters : Complete("filter", toml.filters[i])
    /\ toml.upload.name # "" => Complete("upload", toml.upload)
    /\ toml.metrics.name # "" => Complete("metrics", toml.metrics)
    /\ \A i \in DOMAIN toml.user : ~BadUser(toml.user[i])
    /\ ~toml.unknownKeys
    /\ toml.compByName = toml.compNames /\ toml.compNames = (toml.fields = <<>>)
    /\ Distinct(Fields)
    /\ \A v \in toml.validation : v.compiles /\ \E i \in DOMAIN Fields : Fields[i] = v.field
    /\ toml.validation # {} => ~toml.compValidate
    /\ toml.createRecord \/ toml.separator \in {"", "1"}
    /\ toml.outFields # <<>> \/ toml.raw
    /\ \A f \in {toml.outFields[i] : i \in DOMAIN toml.outFields} \cup ({toml.sharding} \ {""}) :
          \E i \in DOMAIN Fields : Fields[i] = f
    /\ toml.sharding # "" => toml.sharding \in Shards /\ toml.canShard

(* What the code does not check: an upload that does not exist, a user's    *)
(* entry without a section, sizes below zero, a program's field twice.      *)
Unchecked ==
    \/ toml.upload.name \notin Known.upload \cup {""}
    \/ \E i \in DOMAIN toml.user : toml.user[i].section = NoSection
    \/ \E k \in DOMAIN sizes : sizes[k] < 0
    \/ toml.fields = <<>> /\ ~Distinct(toml.compFields)

(* But for that, a file gives a topology exactly when it is sound and an    *)
(* error otherwise; a topology has at least one goroutine of each kind.     *)
UsableOrRefused ==
    Ended /\ ~Unchecked =>
        /\ step = IF Sound THEN "topology" ELSE "error"
        /\ step = "topology" => sizes.procs > 0 /\ sizes.filterProcs > 0
=============================================================================
