---------------------------- MODULE MC_Providers ----------------------------
(***************************************************************************)
(* Small instances of the components of Providers.                         *)
(***************************************************************************)
EXTENDS Providers, TLC

CONSTANTS l1

-----------------------------------------------------------------------------
(* ProviderEntry: two providers, the first is the registered one.          *)
User(listed, own, base, key, auth) ==
  [listed |-> listed, own |-> own, base |-> base, key |-> key, auth |-> auth]

(* Both ways of naming a provider, with different APIs; a key and a header *)
(* of the user; entries that are skipped, and two that throw.              *)
FiveConfigs ==
  { << User("responses", "chat", TRUE, Nothing, Nothing),
       User("no", "responses", FALSE, Nothing, "user") >>,
    << User("no", "responses", TRUE, Nothing, Nothing),
       User("chat", "responses", TRUE, "user", Nothing) >>,
    << User("no", "no", TRUE, Nothing, "user"),
       User("no", "responses", TRUE, Nothing, Nothing) >>,
    << User("no", "responses", TRUE, Nothing, Nothing),
       User("no", "wrong", TRUE, Nothing, Nothing) >>,
    << User("wrong", "responses", TRUE, Nothing, Nothing),
       User("no", "no", TRUE, "user", Nothing) >> }

-----------------------------------------------------------------------------
(* A model of the user that declares the id of another one, with fields    *)
(* set and unset; the options apart and together; catalogs that know       *)
(* everything, little, nothing, or answer with broken entries.             *)
Model(id, name, tools, modalities) ==
  [id |-> id, name |-> name, tool_call |-> tools, modalities |-> modalities]

ThreeListings ==
  { <<Nothing, Nothing>>,
    <<Model(2, Nothing, "yes", Nothing), Model(Nothing, "user", Nothing, "text")>>,
    <<Model(Nothing, Nothing, "no", Nothing), Nothing>> }

Meta(overwrite, textOnly, internal, unmatched) ==
  [overwrite |-> overwrite, hideTextOnly |-> textOnly, hideInternal |-> internal,
   hideUnmatched |-> unmatched]

FourOptions ==
  { Meta({}, FALSE, FALSE, FALSE), Meta({"name", "tool_call"}, FALSE, TRUE, FALSE),
    Meta({}, TRUE, FALSE, FALSE), Meta({"modalities"}, FALSE, FALSE, TRUE) }

Entry(name, tools, modalities, internal) ==
  [name |-> name, tool_call |-> tools, modalities |-> modalities, internal |-> internal]

EightResponses ==
  { [entries |-> entries, broken |-> broken] : broken \in BOOLEAN,
    entries \in { <<Nothing, Nothing>>,
                  <<Nothing, Entry("catalog", "no", "text", FALSE)>>,
                  <<Entry("catalog", "yes", "multi", FALSE), Entry(Nothing, Nothing, Nothing, TRUE)>>,
                  <<Entry("renamed", "no", Nothing, FALSE), Entry("catalog", "yes", "text", FALSE)>> } }

FieldTexts == {"user", "discovered", "catalog", "renamed", "text", "multi"}

TwoIds == 1 .. 2

Symmetry == Permutations(Engines)
=============================================================================
