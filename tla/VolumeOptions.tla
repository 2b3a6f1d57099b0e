----------------------------- MODULE VolumeOptions -----------------------------
(***************************************************************************)
(* How a volume's record is made from its policy and the flat options of   *)
(* the request, which name fields of the nested policy by their merge      *)
(* tags: Client.CreateVolume with merge.Opts and Policy.Validate.  The     *)
(* options are merged in the order of Go's maps, which is any.             *)
(*                                                                         *)
(* Options are strings; the ones here stand for their classes: no text, a  *)
(* truth value, a number, and a number with a unit.  The backend is ceph,  *)
(* whose volumes have a size.                                              *)
(***************************************************************************)
EXTENDS Naturals, FiniteSets, Sequences

CONSTANT MaxOptions  \* bounds the options of a request

Strings == {"", "true", "7", "10m"}

(* The types: a field has a kind and a tag, and a struct has fields. *)
Field(name, kind, tag) == [name |-> name, kind |-> kind, tag |-> tag, fields |-> <<>>]
Struct(name, fields)   == [name |-> name, kind |-> "struct", tag |-> "", fields |-> fields]

CreateOptions ==
    <<Field("Size", "string", "size"), Field("FileSystem", "string", "filesystem")>>

SnapshotConfig ==
    <<Field("Frequency", "string", "snapshots.frequency"), Field("Keep", "uint", "snapshots.keep")>>

RateLimitConfig ==
    <<Field("WriteBPS", "uint", "rate-limit.write.bps"), Field("ReadBPS", "uint", "rate-limit.read.bps")>>

RuntimeOptions ==
    <<Field("UseSnapshots", "bool", "snapshots"), Struct("Snapshot", SnapshotConfig),
      Struct("RateLimit", RateLimitConfig)>>

PolicyType ==
    <<Field("Name", "string", ""), Field("Unlocked", "bool", "unlocked"),
      Struct("CreateOptions", CreateOptions), Struct("RuntimeOptions", RuntimeOptions),
      Field("DriverOptions", "map", ""), Field("FileSystems", "map", ""),
      Field("Backends", "ptr", ""), Field("Backend", "string", "")>>

(* What an operator may know: the option, its field and what it holds. *)
Documented ==
    {<<"unlocked", "Unlocked", "bool">>, <<"size", "Size", "string">>,
     <<"filesystem", "FileSystem", "string">>, <<"snapshots", "UseSnapshots", "bool">>,
     <<"snapshots.frequency", "Frequency", "string">>, <<"snapshots.keep", "Keep", "uint">>,
     <<"rate-limit.write.bps", "WriteBPS", "uint">>, <<"rate-limit.read.bps", "ReadBPS", "uint">>}

Options == {d[1] : d \in Documented} \cup {"mount", "unknown"}
Fields  == {d[2] : d \in Documented}

(* The policies, valid ones, with and without snapshots. *)
BasePolicy(snapshots) ==
    [f \in Fields |->
        CASE f = "Size"         -> "10m"
          [] f = "UseSnapshots" -> snapshots
          [] f = "Frequency"    -> IF snapshots THEN "10m" ELSE ""
          [] f = "Keep"         -> IF snapshots THEN 20 ELSE 0
          [] f = "Unlocked"     -> FALSE
          [] f = "FileSystem"   -> ""
          [] OTHER              -> 0]

VARIABLES
    request,  \* the options asked for
    base,     \* the policy they are merged into
    merging,  \* the options yet to be merged
    volume,   \* the policy's copy, which becomes the record
    outcome   \* "merging", "created" or "refused"

optionVars == <<request, base, merging, volume, outcome>>

Requests == UNION {[S -> Strings] : S \in {T \in SUBSET Options : Cardinality(T) <= MaxOptions}}

(* CreateVolume: the mount option, MountSource of the volume, is taken out *)
(* first.                                                                  *)
OptionsInit ==
    /\ request \in Requests
    /\ base \in {BasePolicy(s) : s \in BOOLEAN}
    /\ merging = DOMAIN request \ {"mount"}
    /\ volume = base
    /\ outcome = "merging"

--------------------------------------------------------------------------------
(* setValueWithType and its casts. *)

Cast(kind, text) ==
    CASE kind = "string"                  -> [ok |-> TRUE, value |-> text]
      [] kind = "bool" /\ text = "true"   -> [ok |-> TRUE, value |-> TRUE]
      [] kind = "uint" /\ text = "7"      -> [ok |-> TRUE, value |-> 7]
      [] OTHER                            -> [ok |-> FALSE]

NotFound == [ok |-> FALSE]

(* A field has the key: its value is set, or does not fit. *)
SetValue(f, text) == [field |-> f.name, cast |-> Cast(f.kind, text), ok |-> Cast(f.kind, text).ok]

First(positions) == CHOOSE i \in positions : \A j \in positions : i <= j

(* Mutant: an error inside a struct is returned. *)
WalkStops(fields, k, text, inside) ==
    LET hits == {i \in DOMAIN fields : fields[i].kind = "struct" \/ fields[i].tag = k}
        x    == First(hits)
    IN  IF hits = {} THEN NotFound
        ELSE IF fields[x].kind = "struct" THEN inside[x] ELSE SetValue(fields[x], text)

(* setKey's loop over the fields, in the order of the type, inside[i]      *)
(* being what it returns for the i-th field if that is a struct: the first *)
(* field that has the key, or struct in which the key was set.  An error   *)
(* inside a struct, also that of a cast, means that it is not there.       *)
Walk(fields, k, text, inside) ==
    LET hits == {i \in DOMAIN fields :
                    IF fields[i].kind = "struct" THEN inside[i].ok ELSE fields[i].tag = k}
        x    == First(hits)
    IN  IF hits = {} THEN NotFound
        ELSE IF fields[x].kind = "struct" THEN inside[x] ELSE SetValue(fields[x], text)

(* setKey: PolicyType has structs in structs, which have no more. *)
SetInnermost(fields, k, text) == Walk(fields, k, text, [i \in DOMAIN fields |-> NotFound])
SetInner(fields, k, text) ==
    Walk(fields, k, text, [i \in DOMAIN fields |-> SetInnermost(fields[i].fields, k, text)])
SetKey(fields, k, text) ==
    Walk(fields, k, text, [i \in DOMAIN fields |-> SetInner(fields[i].fields, k, text)])

(* Opts: an error ends it, and the creation. *)
Opts(k) ==
    /\ outcome = "merging"
    /\ k \in merging
    /\ LET found == SetKey(PolicyType, k, request[k])
       IN  IF found.ok
           THEN /\ volume' = [volume EXCEPT ![found.field] = found.cast.value]
                /\ merging' = merging \ {k}
                /\ UNCHANGED outcome
           ELSE /\ outcome' = "refused"
                /\ UNCHANGED <<volume, merging>>
    /\ UNCHANGED <<request, base>>

(* RuntimeSchema, and the size in megabytes that ActualSize finds. *)
ValidRuntime(p) == p["UseSnapshots"] => p["Frequency"] = "10m" /\ p["Keep"] >= 1
ActualSize(p)   == IF p["Size"] = "10m" THEN 10 ELSE 0

Valid(p) == ValidRuntime(p) /\ ActualSize(p) > 0

Defaulted(p) == [p EXCEPT !["FileSystem"] = IF @ = "" THEN "ext4" ELSE @]

(* The merged policy is validated, and the volume made of it. *)
Validate ==
    /\ outcome = "merging"
    /\ merging = {}
    /\ outcome' = IF Valid(volume) THEN "created" ELSE "refused"
    /\ volume' = IF Valid(volume) THEN Defaulted(volume) ELSE volume
    /\ UNCHANGED <<request, base, merging>>

OptionsNext == Validate \/ \E k \in Options : Opts(k)

OptionsSpec == OptionsInit /\ [][OptionsNext]_optionVars

--------------------------------------------------------------------------------
(* PROPERTIES *)

(* What the request asks for, field by field. *)
AsAsked ==
    [f \in Fields |->
        LET d == CHOOSE e \in Documented : e[2] = f
        IN  IF d[1] \in DOMAIN request THEN Cast(d[3], request[d[1]]).value ELSE base[f]]

(* Every option is a documented one and of its kind. *)
Understood ==
    \A k \in DOMAIN request \ {"mount"} :
        \E d \in Documented : d[1] = k /\ Cast(d[3], request[k]).ok

(* A volume is created with exactly what the request asks for, the rest    *)
(* being that of the policy, in whatever order its options are merged; and *)
(* it is refused only because of an option that is unknown or malformed,   *)
(* or of a result that is not valid.                                       *)
CreatedAsAsked ==
    /\ outcome = "created" => Understood /\ volume = Defaulted(AsAsked) /\ Valid(volume)
    /\ outcome = "refused" => ~Understood \/ ~Valid(AsAsked)
================================================================================
