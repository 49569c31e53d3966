--------------------------- MODULE ProviderWizard ---------------------------
(* The wizard that adds a provider (components/provider-wizard.tsx) on the     *)
(* providers page, which keeps it mounted while it is closed: an answer that   *)
(* comes after the user has closed it finds the state of the next session.     *)
(* A provider is known by the name it was created under, a row of the          *)
(* discovery by the provider it was discovered at; what is typed into a field  *)
(* is only whether it is filled.  MaxSessions bounds how often it is closed.   *)
EXTENDS Naturals, FiniteSets

CONSTANTS Names,        \* what the user calls providers
          Models,       \* the models an endpoint may offer
          MaxSessions   \* bound: sessions of the wizard

NoName == ""         \* an empty field, no provider yet

ASSUME WizardAssumption == MaxSessions \in Nat /\ NoName \notin Names

VARIABLES
    open, step,     \* the wizard is shown; its step, 1..5
    name,           \* displayName
    selection,      \* the kind of provider, "none" before one is picked
    apiKey, baseUrl,\* the fields are filled
    providerId,     \* the provider that was created, "" before
    rows,           \* the rows discovered: of which provider, which, picked
    createError, discoverError,
    creating,       \* the create in flight (createProvider.isPending), or {}
    discoveries,    \* the discoveries in flight
    discovering,    \* the last of them has not settled (discoverModels.isPending)
    confirming,     \* the bulk confirm in flight (bulkConfirm.isPending), or {}
    registered,     \* the bulk confirms sent: to whom, whose rows, under which name
    session,        \* how often the wizard has been closed
    late            \* an answer has come to another session than the one that asked

wizardVars == <<open, step, name, selection, apiKey, baseUrl, providerId, rows, createError,
                discoverError, creating, discoveries, discovering, confirming, registered,
                session, late>>

\* FIRST_PARTY_TYPES by what they need (LOCAL_FIRST_PARTY_TYPES a base URL, the
\* others a key), and the manifests of plugins by theirs.
Kinds == {"hosted", "local", "plugin_open", "plugin_key"}
Plugin(k) == k \in {"plugin_open", "plugin_key"}
RequiresApiKey(k) == k \in {"hosted", "plugin_key"}
RequiresBaseUrl(k) == k \in {"local", "plugin_open"}
DefaultBaseUrl(k) == k = "plugin_open"     \* manifest.default_base_url

NoRows == [of |-> NoName, models |-> {}, picked |-> {}]

WizardTypeOK ==
    /\ open \in BOOLEAN /\ step \in 1..5
    /\ name \in Names \cup {NoName} /\ selection \in Kinds \cup {"none"}
    /\ apiKey \in BOOLEAN /\ baseUrl \in BOOLEAN
    /\ providerId \in Names \cup {NoName}
    /\ rows \in [of : Names \cup {NoName}, models : SUBSET Models, picked : SUBSET Models]
    /\ rows.picked \subseteq rows.models
    /\ createError \in BOOLEAN /\ discoverError \in BOOLEAN
    /\ creating \subseteq [name : Names, plugin : BOOLEAN, session : 0..MaxSessions]
    /\ discoveries \subseteq [of : Names, session : 0..MaxSessions, try : 0..1]
    /\ discovering \in BOOLEAN
    /\ confirming \subseteq [session : 0..MaxSessions]
    /\ registered \subseteq [to : Names, rowsOf : Names \cup {NoName}, shown : Names \cup {NoName}]
    /\ session \in 0..MaxSessions /\ late \in BOOLEAN

\* The fields as reset() leaves them.
Blank == /\ step = 1 /\ name = NoName /\ selection = "none"
         /\ apiKey = FALSE /\ baseUrl = FALSE /\ providerId = NoName /\ rows = NoRows
         /\ createError = FALSE /\ discoverError = FALSE
Reset == /\ step' = 1 /\ name' = NoName /\ selection' = "none"
         /\ apiKey' = FALSE /\ baseUrl' = FALSE /\ providerId' = NoName /\ rows' = NoRows
         /\ createError' = FALSE /\ discoverError' = FALSE

WizardInit ==
    /\ open = FALSE /\ Blank
    /\ creating = {} /\ discoveries = {} /\ discovering = FALSE /\ confirming = {}
    /\ registered = {} /\ session = 0 /\ late = FALSE

fields == <<step, name, selection, apiKey, baseUrl, providerId, rows, createError, discoverError>>
flight == <<creating, discoveries, discovering, confirming>>
history == <<registered, session, late>>

-----------------------------------------------------------------------------
(* The user.                                                                   *)

\* "Add provider": nothing is reset on opening.
OpenWizard ==
    /\ ~open /\ session < MaxSessions
    /\ open' = TRUE
    /\ UNCHANGED <<fields, flight, history>>

\* handleClose: the cross, the backdrop, "Discover later".
HandleClose == Reset /\ open' = FALSE /\ session' = session + 1
CloseWizard ==
    /\ open
    /\ HandleClose
    /\ UNCHANGED <<flight, registered, late>>

TypeName(n) ==
    /\ open /\ step = 1
    /\ name' = n
    /\ UNCHANGED <<open, step, selection, apiKey, baseUrl, providerId, rows, createError,
                   discoverError, flight, history>>

SelectType(k) ==
    /\ open /\ step = 2
    /\ selection' = k /\ baseUrl' = DefaultBaseUrl(k)
    /\ UNCHANGED <<open, step, name, apiKey, providerId, rows, createError, discoverError,
                   flight, history>>

\* canProceedFromStep1..3 and the other conditions of the buttons.
CanProceed ==
    CASE step = 1 -> name # NoName
      [] step = 2 -> selection # "none"
      [] step = 3 -> /\ selection # "none"
                     /\ RequiresApiKey(selection) => apiKey
                     /\ RequiresBaseUrl(selection) => baseUrl
      [] step = 4 -> ~discovering /\ rows.models # {}
      [] step = 5 -> TRUE

NextStep ==
    /\ open /\ step \in {1, 2, 4} /\ CanProceed
    /\ step' = step + 1
    /\ UNCHANGED <<open, name, selection, apiKey, baseUrl, providerId, rows, createError,
                   discoverError, flight, history>>

\* Mutant: "Back" is offered beside the discovery as well.
BackStepAnywhere ==
    /\ open /\ step \in {2, 3, 4}
    /\ step' = step - 1
    /\ UNCHANGED <<open, name, selection, apiKey, baseUrl, providerId, rows, createError,
                   discoverError, flight, history>>

BackStep ==
    /\ open /\ step \in {2, 3}
    /\ step' = step - 1
    /\ UNCHANGED <<open, name, selection, apiKey, baseUrl, providerId, rows, createError,
                   discoverError, flight, history>>

\* The inputs of step 3, for the fields that the type asks for.
Fill ==
    /\ open /\ step = 3 /\ selection # "none"
    /\ \/ RequiresApiKey(selection) /\ apiKey' \in BOOLEAN /\ UNCHANGED baseUrl
       \/ RequiresBaseUrl(selection) /\ baseUrl' \in BOOLEAN /\ UNCHANGED apiKey
    /\ UNCHANGED <<open, step, name, selection, providerId, rows, createError, discoverError,
                   flight, history>>

\* "Connect", disabled while a create is pending.
HandleCreateProvider ==
    /\ open /\ step = 3 /\ CanProceed /\ name # NoName
    /\ creating = {}
    /\ creating' = creating \cup {[name |-> name, plugin |-> Plugin(selection), session |-> session]}
    /\ createError' = FALSE
    /\ UNCHANGED <<open, step, name, selection, apiKey, baseUrl, providerId, rows, discoverError,
                   discoveries, discovering, confirming, history>>

\* runDiscovery(id): one more discovery, which the hook now observes.
RunDiscovery(id, s, try) ==
    /\ discoveries' = discoveries \cup {[of |-> id, session |-> s, try |-> try]}
    /\ discovering' = TRUE /\ discoverError' = FALSE

\* "Retry discovery"; one try more is enough for two answers to be under way.
RetryDiscovery ==
    /\ open /\ step = 4 /\ ~discovering /\ discoverError /\ providerId # NoName
    /\ RunDiscovery(providerId, session, 1)
    /\ UNCHANGED <<open, step, name, selection, apiKey, baseUrl, providerId, rows, createError,
                   creating, confirming, history>>

UpdateRow(m) ==
    /\ open /\ step = 4 /\ ~discovering /\ ~discoverError /\ m \in rows.models
    /\ rows' = [rows EXCEPT !.picked = IF m \in @ THEN @ \ {m} ELSE @ \cup {m}]
    /\ UNCHANGED <<open, step, name, selection, apiKey, baseUrl, providerId, createError,
                   discoverError, flight, history>>

\* "Finish", disabled while a confirm is pending; without a pick it only closes.
HandleConfirm ==
    /\ open /\ step = 5 /\ confirming = {} /\ providerId # NoName
    /\ IF rows.picked = {}
       THEN HandleClose /\ UNCHANGED <<flight, registered, late>>
       ELSE /\ confirming' = {[session |-> session]}
            /\ registered' = registered \cup
                 {[to |-> providerId, rowsOf |-> rows.of, shown |-> name]}
            /\ UNCHANGED <<open, fields, creating, discoveries, discovering, session, late>>

-----------------------------------------------------------------------------
(* The answers, whenever they come.                                            *)

\* The create has succeeded (and the list of providers, whose refetch the
\* mutation waits for, is back).  A plugin goes on with the discovery, any other
\* type closes the wizard.
Created(c) ==
    /\ c \in creating
    /\ creating' = creating \ {c}
    /\ late' = (late \/ c.session # session)
    /\ IF c.plugin
       THEN /\ providerId' = c.name /\ step' = 4
            /\ RunDiscovery(c.name, session, 0)
            /\ UNCHANGED <<open, name, selection, apiKey, baseUrl, rows, createError, session>>
       ELSE /\ Reset /\ open' = FALSE
            /\ session' = IF open THEN session + 1 ELSE session
            /\ UNCHANGED <<discoveries, discovering>>
    /\ UNCHANGED <<confirming, registered>>

CreateFails(c) ==
    /\ c \in creating
    /\ creating' = creating \ {c}
    /\ createError' = TRUE
    /\ late' = (late \/ c.session # session)
    /\ UNCHANGED <<open, step, name, selection, apiKey, baseUrl, providerId, rows, discoverError,
                   discoveries, discovering, confirming, registered, session>>

\* The hook observes the last discovery that was started.
Observed(d) == \A e \in discoveries : <<e.session, e.try>> = <<d.session, d.try>>
                                       \/ e.session < d.session
                                       \/ (e.session = d.session /\ e.try < d.try)

\* Mutant: the picks of an earlier discovery stay.
DiscoveredOnTop(d, found) ==
    /\ d \in discoveries
    /\ discoveries' = discoveries \ {d}
    /\ discovering' = (discovering /\ ~Observed(d))
    /\ rows' = [of |-> d.of, models |-> found, picked |-> rows.picked \cup found]
    /\ late' = (late \/ d.session # session)
    /\ UNCHANGED <<open, step, name, selection, apiKey, baseUrl, providerId, createError,
                   discoverError, creating, confirming, registered, session>>

Discovered(d, found) ==
    /\ d \in discoveries
    /\ discoveries' = discoveries \ {d}
    /\ discovering' = (discovering /\ ~Observed(d))
    /\ rows' = [of |-> d.of, models |-> found, picked |-> found]
    /\ late' = (late \/ d.session # session)
    /\ UNCHANGED <<open, step, name, selection, apiKey, baseUrl, providerId, createError,
                   discoverError, creating, confirming, registered, session>>

DiscoverFails(d) ==
    /\ d \in discoveries
    /\ discoveries' = discoveries \ {d}
    /\ discovering' = (discovering /\ ~Observed(d))
    /\ discoverError' = TRUE
    /\ late' = (late \/ d.session # session)
    /\ UNCHANGED <<open, step, name, selection, apiKey, baseUrl, providerId, rows, createError,
                   creating, confirming, registered, session>>

\* The confirm closes the wizard that is shown; a failure leaves it at step 5.
Confirmed(c) ==
    /\ c \in confirming
    /\ confirming' = {}
    /\ late' = (late \/ c.session # session)
    /\ Reset /\ open' = FALSE
    /\ session' = IF open THEN session + 1 ELSE session
    /\ UNCHANGED <<creating, discoveries, discovering, registered>>

ConfirmFails(c) ==
    /\ c \in confirming
    /\ confirming' = {}
    /\ UNCHANGED <<open, fields, creating, discoveries, discovering, history>>

WizardNext ==
    \/ OpenWizard \/ CloseWizard
    \/ \E n \in Names : TypeName(n)
    \/ \E k \in Kinds : SelectType(k)
    \/ NextStep \/ BackStep \/ Fill
    \/ HandleCreateProvider \/ RetryDiscovery \/ HandleConfirm
    \/ \E m \in Models : UpdateRow(m)
    \/ \E c \in creating : Created(c) \/ CreateFails(c)
    \/ \E d \in discoveries : DiscoverFails(d) \/ \E found \in SUBSET Models : Discovered(d, found)
    \/ \E c \in confirming : Confirmed(c) \/ ConfirmFails(c)

WizardSpec == WizardInit /\ [][WizardNext]_wizardVars

-----------------------------------------------------------------------------
\* The models are registered at the provider that step 5 names, "Register n
\* models under <displayName>" (provider-wizard.tsx:379).
RegistersUnderName == \A r \in registered : r.to = r.shown

\* The models that are registered were discovered at the provider they are
\* registered at, as long as no answer has come to a session that did not ask
\* for it: within a session the pending flags keep the rows and the provider
\* together, retries and a name changed in the meantime included.
RowsOfProvider == late \/ \A r \in registered : r.rowsOf = r.to
=============================================================================
