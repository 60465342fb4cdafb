--------------------------- MODULE BundleResolver ---------------------------
(***************************************************************************)
(* The bundle resolver: ValidateParams, Resolve and GetEntry for one       *)
(* request, against a registry in which the tag of the bundle may move.    *)
(*                                                                         *)
(* An image is the sequence of its manifest's layers: the annotations kind *)
(* and name, whether there is an apiVersion, and a digest.  The digest     *)
(* stands for the content of the layer's first tar entry.  image.Layers()  *)
(* of a remote image has one layer for each layer of the manifest, so a    *)
(* layer with the digest of a manifest layer always exists and GetEntry's  *)
(* fallback to a raw layer is never reached.                               *)
(***************************************************************************)
EXTENDS Integers, Sequences, FiniteSetsExt

CONSTANTS
    Kinds, EntryNames,  \* what entries can be asked for
    ServiceAccounts,    \* names of service accounts
    Layers,             \* layers that images are made of
    MaxLayers,          \* bound on the layers of an image
    MaxRetags,          \* bound on moves of the tag
    Missing             \* a parameter or an annotation that is not there

ASSUME BundleAssumption == MaxLayers \in Nat /\ MaxRetags \in Nat

defaultServiceAccountName == "default"

Images == UNION {[1 .. n -> Layers] : n \in 0 .. MaxLayers}

\* The parameters; "malformed" is a reference that does not parse.
Params ==
    [serviceAccount : ServiceAccounts \cup {Missing},
     bundle : {"reference", "malformed", Missing},
     name : EntryNames \cup {Missing},
     kind : Kinds \cup {Missing}]

Options ==
    [serviceAccount : ServiceAccounts \cup {defaultServiceAccountName},
     bundle : {"reference"}, name : EntryNames, kind : Kinds]

NoOptions == [serviceAccount |-> "", bundle |-> "", name |-> "", kind |-> ""]

VARIABLES
    tag,          \* the image the tag of the bundle points to
    retags,       \* moves of the tag so far
    accounts,     \* service accounts that exist, with their pull secrets
    pc,           \* where the call of the resolver is
    params,       \* the parameters of the request
    opts,         \* the RequestOptions made from them
    credentials,  \* the service account whose credentials are used, or Missing
    image,        \* the image that was fetched
    idx,          \* the layer GetEntry is at
    data,         \* what was read: a digest, and whether all of it was read
    failure       \* why the call failed

registryVars == <<tag, retags, accounts>>
callVars == <<pc, params, opts, credentials, image, idx, data, failure>>
bundleVars == <<registryVars, callVars>>

NoEntry == [digest |-> Missing, complete |-> FALSE]

BundleTypeOK ==
    /\ tag \in Images
    /\ retags \in 0 .. MaxRetags
    /\ accounts \subseteq ServiceAccounts \cup {defaultServiceAccountName}
    /\ pc \in {"validate", "keychain", "image", "scan", "read", "resolved",
               "failed"}
    /\ params \in Params
    /\ opts \in Options \cup {NoOptions}
    /\ credentials \in accounts \cup {Missing}
    /\ image \in Images
    /\ idx \in 1 .. MaxLayers + 1
    /\ data.complete \in BOOLEAN

BundleInit ==
    /\ tag \in Images
    /\ retags = 0
    /\ accounts \in SUBSET (ServiceAccounts \cup {defaultServiceAccountName})
    /\ pc = "validate"
    /\ params \in Params
    /\ opts = NoOptions
    /\ credentials = Missing
    /\ image = <<>>
    /\ idx = 1
    /\ data = NoEntry
    /\ failure = ""

Retag ==
    /\ retags < MaxRetags
    /\ retags' = retags + 1
    /\ tag' \in Images
    /\ UNCHANGED <<accounts, callVars>>

-----------------------------------------------------------------------------
Fail(step, why) ==
    /\ pc = step
    /\ pc' = "failed"
    /\ failure' = why
    /\ UNCHANGED <<registryVars, params, opts, credentials, image, idx, data>>

\* OptionsFromParams: a parameter must be there, but may be empty.
ValidParams(p) ==
    /\ p.bundle = "reference"
    /\ p.name # Missing
    /\ p.kind # Missing

\* Mutant: no default for the service account.
OptionsWithoutDefault(p) ==
    [serviceAccount |-> p.serviceAccount,
     bundle |-> p.bundle, name |-> p.name, kind |-> p.kind]

OptionsFromParams(p) ==
    [serviceAccount |-> IF p.serviceAccount = Missing
                        THEN defaultServiceAccountName
                        ELSE p.serviceAccount,
     bundle |-> p.bundle, name |-> p.name, kind |-> p.kind]

\* ValidateParams, and the same again at the beginning of Resolve.
ValidateParams ==
    /\ pc = "validate"
    /\ ValidParams(params)
    /\ opts' = OptionsFromParams(params)
    /\ pc' = "keychain"
    /\ UNCHANGED <<registryVars, params, credentials, image, idx, data, failure>>

OptionsFromParamsFails == Fail("validate", "invalid") /\ ~ValidParams(params)

\* k8schain.New: an error (no such account, a failing call) is dropped, and
\* without a keychain the registry is asked anonymously.
NewKeychain ==
    /\ pc = "keychain"
    /\ credentials' \in {opts.serviceAccount, Missing}
    /\ credentials' # Missing => opts.serviceAccount \in accounts
    /\ pc' = "image"
    /\ UNCHANGED <<registryVars, params, opts, image, idx, data, failure>>

\* remote.Image and its manifest; the registry may refuse.
FetchImage ==
    /\ pc = "image"
    /\ image' = tag
    /\ pc' = "scan"
    /\ UNCHANGED <<registryVars, params, opts, credentials, idx, data, failure>>

FetchImageFails == Fail("image", "image")

-----------------------------------------------------------------------------
(***************************************************************************)
(* GetEntry's loop over the layers of the manifest.                        *)
(***************************************************************************)
Annotated(layer) ==
    layer.kind # Missing /\ layer.name # Missing /\ layer.apiVersion # Missing

\* Mutant: only the name is compared.
MatchesName(layer) == layer.name = opts.name

LayerMatches(layer) == layer.kind = opts.kind /\ layer.name = opts.name

ScanUnannotated ==
    /\ idx <= Len(image)
    /\ ~Annotated(image[idx])
    /\ Fail("scan", "annotation")

ScanNext ==
    /\ pc = "scan"
    /\ idx <= Len(image)
    /\ Annotated(image[idx]) /\ ~LayerMatches(image[idx])
    /\ idx' = idx + 1
    /\ UNCHANGED <<registryVars, pc, params, opts, credentials, image, data,
                   failure>>

ScanMatch ==
    /\ pc = "scan"
    /\ idx <= Len(image)
    /\ Annotated(image[idx]) /\ LayerMatches(image[idx])
    /\ pc' = "read"
    /\ UNCHANGED <<registryVars, params, opts, credentials, image, idx, data,
                   failure>>

\* Mutant: the last layer is not looked at.
ScanEndEarly == idx >= Len(image) /\ Fail("scan", "no match")

ScanEnd == idx > Len(image) /\ Fail("scan", "no match")

\* Mutant: the number of bytes read is not compared with the header's.
ReadAny ==
    /\ pc = "read"
    /\ data' \in {[digest |-> image[idx].digest, complete |-> c] : c \in BOOLEAN}
    /\ pc' = "resolved"
    /\ UNCHANGED <<registryVars, params, opts, credentials, image, idx, failure>>

\* One Read of the tar entry, which may return less than the whole entry.
ReadEntry ==
    /\ pc = "read"
    /\ data' = [digest |-> image[idx].digest, complete |-> TRUE]
    /\ pc' = "resolved"
    /\ UNCHANGED <<registryVars, params, opts, credentials, image, idx, failure>>

\* The layer cannot be fetched, is no tar archive, or the Read is short.
ReadEntryFails == Fail("read", "layer")

GetEntry ==
    \/ ScanUnannotated \/ ScanNext \/ ScanMatch \/ ScanEnd
    \/ ReadEntry \/ ReadEntryFails

BundleNext ==
    \/ Retag
    \/ ValidateParams \/ OptionsFromParamsFails
    \/ NewKeychain
    \/ FetchImage \/ FetchImageFails
    \/ GetEntry

BundleSpec == BundleInit /\ [][BundleNext]_bundleVars

-----------------------------------------------------------------------------
(***************************************************************************)
(* Properties.                                                             *)
(***************************************************************************)
Asked(i) == image[i].kind = params.kind /\ image[i].name = params.name

\* GetEntry returns the whole content of the first layer of the fetched
\* image that has the kind and the name the request asks for.
FirstMatchReturned ==
    pc = "resolved" =>
        /\ \E i \in DOMAIN image : Asked(i)
        /\ LET first == Min({i \in DOMAIN image : Asked(i)})
           IN  data = [digest |-> image[first].digest, complete |-> TRUE]

\* GetEntry says that no layer matches only after it has seen all of them.
NoMatchMeansNone ==
    pc = "failed" /\ failure = "no match" =>
        \A i \in DOMAIN image : ~Asked(i)

\* A resolved bundle was fetched with the credentials of the service account
\* the request names, or of the default one: Resolve drops k8schain's error.
CredentialsOfServiceAccount == pc = "resolved" => credentials = opts.serviceAccount
=============================================================================
