----------------------------- MODULE ClientPages -----------------------------
(***************************************************************************)
(* What the browser client shows to whom: the routes of router.rs, the     *)
(* pages of pages.rs with the permission gate, the requests and the        *)
(* buttons of each, the navigation of components.rs, the endpoints of      *)
(* api.rs with the permission that the backend handler behind each of them *)
(* requires, and the grants that migration 0002_rbac.sql seeds.            *)
(*                                                                         *)
(* Three parts of the repository decide who may do what and none of them   *)
(* reads another: the client from the permissions it was given at sign-in, *)
(* the handlers from literals, the database from its seed.  An             *)
(* administrator may change a user's roles while the client's copy of the  *)
(* permissions stays what it was.                                          *)
(***************************************************************************)
EXTENDS Naturals, Sequences, FiniteSets, TLC, SequencesExt

CONSTANTS
    RoleSets,    \* sets of roles an administrator may give the user
    MaxChanges,  \* bound: changes of the user's roles
    MaxTasks     \* bound: tasks of the page in flight when a button is pressed

ASSUME PageBoundAssumption == MaxChanges \in Nat /\ MaxTasks \in Nat

VARIABLES
    roles,     \* user_roles of the user
    held,      \* roles in the client's AuthState, or SignedOut
    route,     \* the page shown
    tasks,     \* its spawned tasks: the requests each has still to make
    refusals,  \* <<route, call>>: refused though the client's copy was right
    changes

vars == <<roles, held, route, tasks, refusals, changes>>

Role == {"administrator", "data_steward", "analyst", "recruiter",
         "regular_user"}

Grants ==
    [administrator |->
        {"user.manage", "role.assign", "retention.manage", "monitoring.read",
         "allowlist.manage", "mtls.manage", "product.read",
         "product.history.read", "metric.read", "alert.manage", "alert.ack",
         "report.schedule", "report.run", "kpi.read", "talent.manage"},
     data_steward |->
        {"product.read", "product.write", "product.import",
         "product.history.read", "ref.write", "alert.ack", "report.schedule",
         "report.run", "kpi.read"},
     analyst |->
        {"product.read", "product.history.read", "metric.read",
         "metric.configure", "alert.manage", "alert.ack", "report.schedule",
         "report.run", "kpi.read"},
     recruiter |->
        {"product.read", "alert.ack", "report.run", "kpi.read",
         "talent.read", "talent.manage", "talent.feedback"},
     regular_user |->
        {"product.read", "metric.read", "alert.ack", "report.run",
         "kpi.read"}]

Permission == UNION {Grants[r] : r \in Role}
Granted(R) == UNION {Grants[r] : r \in R}

SignedOut == {"signed out"}

-----------------------------------------------------------------------------
(* The endpoints: a call of the client and the permissions one of which    *)
(* the handler requires.  {} stands for a handler open to any signed-in    *)
(* user.                                                                   *)

Need(any, calls) == [c \in calls |-> any]

SelfCalls == Need({}, {"me", "change_password"})

UserCalls ==
    Need({"user.manage"}, {"list_users", "create_user", "update_user",
                           "delete_user", "unlock_user", "reset_password"})
    @@ Need({"role.assign"}, {"assign_roles", "list_roles"})
    @@ Need({"monitoring.read"}, {"list_audit"})

SecurityCalls ==
    Need({"allowlist.manage"}, {"list_allowlist", "create_allowlist",
                                "delete_allowlist"})
    @@ Need({"mtls.manage"}, {"list_device_certs", "revoke_device_cert",
                              "get_mtls", "patch_mtls", "mtls_status"})

RetentionCalls ==
    Need({"retention.manage"}, {"list_retention", "patch_retention",
                                "run_retention"})

MonitoringCalls ==
    Need({"monitoring.read"}, {"list_latency", "list_errors", "list_crashes"})
    @@ Need({}, {"ingest_crash"})

RefDataCalls == Need({}, {"list_sites", "list_departments"})

NotificationCalls ==
    Need({}, {"list_notifications", "mark_notification_read",
              "mark_all_notifications_read", "unread_count"})

ProductCalls ==
    Need({"product.read"}, {"list_products", "get_product", "export_products"})
    @@ Need({"product.history.read"}, {"product_history"})
    @@ Need({"product.write"}, {"create_product", "set_product_status",
                                "add_tax_rate", "delete_tax_rate",
                                "delete_product_image"})

ImportCalls ==
    Need({"product.import"}, {"list_imports", "get_import", "list_import_rows",
                              "validate_import", "commit_import",
                              "cancel_import"})

MetricCalls ==
    Need({"metric.read"}, {"list_env_sources", "list_observations",
                           "list_metric_definitions", "metric_series",
                           "metric_lineage"})
    @@ Need({"metric.configure"}, {"create_env_source",
                                   "create_metric_definition"})

KpiCalls ==
    Need({"kpi.read"}, {"kpi_summary", "kpi_cycle_time", "kpi_anomalies",
                        "kpi_efficiency", "kpi_drill", "kpi_funnel"})

AlertCalls ==
    Need({"alert.manage"}, {"list_alert_rules", "create_alert_rule"})
    @@ Need({"kpi.read"}, {"list_alert_events"})
    @@ Need({"alert.ack"}, {"ack_alert_event"})

ReportCalls ==
    Need({"report.run"}, {"list_report_jobs", "run_report_now",
                          "download_report_artifact"})
    @@ Need({"report.schedule"}, {"create_report_job"})

TalentCalls ==
    Need({"talent.read", "talent.manage"},
         {"list_candidates", "get_candidate", "list_talent_roles",
          "get_recommendations", "get_talent_weights", "put_talent_weights",
          "list_watchlists", "create_watchlist", "list_watchlist_items",
          "add_watchlist_item", "remove_watchlist_item"})
    @@ Need({"talent.manage"}, {"create_talent_role"})
    @@ Need({"talent.feedback"}, {"post_talent_feedback"})

Requires ==
    SelfCalls @@ UserCalls @@ SecurityCalls @@ RetentionCalls
    @@ MonitoringCalls @@ RefDataCalls @@ NotificationCalls @@ ProductCalls
    @@ ImportCalls @@ MetricCalls @@ KpiCalls @@ AlertCalls @@ ReportCalls
    @@ TalentCalls

Call == DOMAIN Requires

\* require_permission and require_any_permission.
Permitted(c, perms) == Requires[c] = {} \/ Requires[c] \cap perms # {}

-----------------------------------------------------------------------------
(* The pages.  A page has the permissions one of which its gate asks for    *)
(* ({} when it has no gate), the tasks it spawns when it is mounted, the    *)
(* calls its buttons make and the pages its links lead to.  A button or a   *)
(* task may depend on a permission of its own.                              *)

Anyone == ""

\* Buttons shown to holders of p; a success runs the page's tasks again.
Buttons(p, calls) == {[for |-> p, call |-> c, reload |-> TRUE] : c \in calls}

\* Buttons whose success leaves the page as it is.
Quiet(p, calls) == {[for |-> p, call |-> c, reload |-> FALSE] : c \in calls}

\* fill: the tasks that fill the page, run again by every reload.
\* once: the tasks run on mount only, for the choices of the forms.
Page(gate, fill, once, buttons, links) ==
    [gate |-> gate, fill |-> fill, once |-> once, buttons |-> buttons,
     links |-> links]

Login == Page({}, {}, {}, {}, {})
ChangePassword == Page({}, {}, {}, Quiet(Anyone, {"change_password"}), {})
NotFound == Page({}, {}, {}, {}, {"Dashboard"})

\* The links of a set of rows whose permissions (or role) the user has.
Shown(rows, has) == UNION {row[2] : row \in {x \in rows : x[1] \cap has # {}}}

\* Home asks for the summary only if it may; its quick actions are links.
HomeTasks(perms) == IF "kpi.read" \in perms THEN {<<"kpi_summary">>} ELSE {}
HomeLinks(has) ==
    {"Notifications"}
    \cup Shown({<<{"kpi.read"}, {"Kpi"}>>,
                <<{"administrator"}, {"AdminUsers"}>>,
                <<{"product.read"}, {"Products"}>>,
                <<{"metric.read"}, {"MetricDefinitions"}>>,
                <<{"talent.read", "talent.manage"},
                  {"TalentRecommendations"}>>}, has)

CreateUserCard == Buttons(Anyone, {"create_user"})
Users ==
    Page({"user.manage"}, {<<"list_users">>}, {<<"list_roles">>},
         CreateUserCard \cup Buttons(Anyone, {"unlock_user", "delete_user"}),
         {})
Allowlist ==
    Page({"allowlist.manage"}, {<<"list_allowlist">>}, {},
         Buttons(Anyone, {"create_allowlist", "delete_allowlist"}), {})
Retention ==
    Page({"retention.manage"}, {<<"list_retention">>}, {},
         Buttons(Anyone, {"patch_retention", "run_retention"}), {})
Mtls ==
    Page({"mtls.manage"}, {<<"get_mtls", "mtls_status">>}, {},
         Buttons(Anyone, {"patch_mtls"}), {})
Audit == Page({"monitoring.read"}, {<<"list_audit">>}, {}, {}, {})

Center ==
    Page({}, {<<"list_notifications">>}, {},
         Buttons(Anyone, {"mark_notification_read",
                          "mark_all_notifications_read"}), {})

Latency == Page({"monitoring.read"}, {<<"list_latency">>}, {}, {}, {})
Errors  == Page({"monitoring.read"}, {<<"list_errors">>}, {}, {}, {})
Crashes == Page({"monitoring.read"}, {<<"list_crashes">>}, {}, {}, {})

ProductForm == Buttons("product.write", {"create_product"})
ProductsList ==
    Page({"product.read"}, {<<"list_products">>}, {}, ProductForm,
         {"ProductDetail"})
ProductDetailButtons ==
    Buttons("product.write", {"add_tax_rate", "delete_tax_rate",
                              "delete_product_image", "set_product_status"})
ProductDetail ==
    Page({"product.read"}, {<<"get_product", "product_history">>}, {},
         ProductDetailButtons, {})
ImportsList ==
    Page({"product.import"}, {<<"list_imports">>}, {}, {}, {"ImportDetail"})
ImportDetail ==
    Page({"product.import"}, {<<"get_import">>, <<"list_import_rows">>}, {},
         Buttons(Anyone, {"validate_import", "commit_import",
                          "cancel_import"}), {})

\* Slip: the form is there for everyone.
SourcesForAll ==
    Page({"metric.read"}, {<<"list_env_sources">>}, {},
         Buttons(Anyone, {"create_env_source"}), {})

Sources ==
    Page({"metric.read"}, {<<"list_env_sources">>}, {},
         Buttons("metric.configure", {"create_env_source"}), {})
Observations == Page({"metric.read"}, {<<"list_observations">>}, {}, {}, {})
CreateDefinitionCard ==
    Buttons("metric.configure", {"create_metric_definition"})
Definitions ==
    Page({"metric.read"}, {<<"list_metric_definitions">>}, {},
         CreateDefinitionCard, {"MetricDefinitionDetail"})
\* Slip: the points do not lead to their lineage.
DefinitionSeriesAlone ==
    Page({"metric.read"}, {<<"metric_series">>}, {}, {}, {})

DefinitionSeries ==
    Page({"metric.read"}, {<<"metric_series">>}, {}, {},
         {"MetricComputationLineage"})
ComputationLineage ==
    Page({"metric.read"}, {<<"metric_lineage">>}, {}, {},
         {"MetricDefinitionDetail"})
KpiTask == <<"kpi_summary", "kpi_cycle_time", "kpi_anomalies",
             "kpi_efficiency", "kpi_drill", "kpi_funnel">>
Kpi ==
    Page({"kpi.read"}, {KpiTask}, {<<"list_sites", "list_departments">>},
         {}, {})
AlertRuleForm == Buttons(Anyone, {"create_alert_rule"})
AlertRules ==
    Page({"alert.manage"}, {<<"list_alert_rules">>},
         {<<"list_metric_definitions">>}, AlertRuleForm, {})
ReportChoices == <<"list_env_sources", "list_metric_definitions",
                   "list_sites", "list_departments">>
ReportButtons ==
    Buttons(Anyone, {"run_report_now", "create_report_job"})
    \cup Quiet(Anyone, {"download_report_artifact"})
Reports ==
    Page({"report.schedule", "report.run"}, {<<"list_report_jobs">>},
         {ReportChoices}, ReportButtons, {})
\* Slip: the gate of the page beside it.
AlertsFeedManaged ==
    Page({"alert.manage"}, {<<"list_alert_events">>}, {},
         Buttons(Anyone, {"ack_alert_event"}), {})

AlertsFeed ==
    Page({"alert.ack"}, {<<"list_alert_events">>}, {},
         Buttons(Anyone, {"ack_alert_event"}), {})

TalentGate == {"talent.read", "talent.manage"}
Candidates ==
    Page(TalentGate, {<<"list_candidates">>}, {}, {},
         {"TalentCandidateDetail"})
CandidateDetail ==
    Page(TalentGate, {<<"get_candidate">>}, {},
         Quiet("talent.feedback", {"post_talent_feedback"}), {})
RoleForm == Buttons("talent.manage", {"create_talent_role"})
Roles == Page(TalentGate, {<<"list_talent_roles">>}, {}, RoleForm, {})
Recommendations ==
    Page(TalentGate, {}, {<<"list_talent_roles">>},
         Quiet(Anyone, {"get_recommendations"}), {})
Weights ==
    Page(TalentGate, {<<"get_talent_weights">>}, {},
         Quiet(Anyone, {"put_talent_weights"}), {})
Watchlists ==
    Page(TalentGate, {<<"list_watchlists">>}, {},
         Buttons(Anyone, {"create_watchlist"}), {"TalentWatchlistDetail"})
WatchlistDetail ==
    Page(TalentGate, {<<"list_watchlist_items">>}, {<<"list_candidates">>},
         Buttons(Anyone, {"add_watchlist_item", "remove_watchlist_item"}),
         {"TalentCandidateDetail"})

Home(has) == Page({}, {}, HomeTasks(has), {}, HomeLinks(has))

\* The page behind each route.  "/" redirects to the dashboard.
Pages ==
    [Login |-> Login, Dashboard |-> Home({}),
     ChangePassword |-> ChangePassword, Notifications |-> Center,
     AdminUsers |-> Users, AdminAllowlist |-> Allowlist, AdminMtls |-> Mtls,
     AdminRetention |-> Retention, AdminAudit |-> Audit,
     MonLatency |-> Latency, MonErrors |-> Errors, MonCrashes |-> Crashes,
     Products |-> ProductsList, ProductDetail |-> ProductDetail,
     Imports |-> ImportsList, ImportDetail |-> ImportDetail,
     EnvSources |-> Sources, EnvObservations |-> Observations,
     MetricDefinitions |-> Definitions,
     MetricDefinitionDetail |-> DefinitionSeries,
     MetricComputationLineage |-> ComputationLineage,
     Kpi |-> Kpi, AlertRules |-> AlertRules, AlertEvents |-> AlertsFeed,
     Reports |-> Reports, TalentCandidates |-> Candidates,
     TalentCandidateDetail |-> CandidateDetail, TalentRoles |-> Roles,
     TalentRecommendations |-> Recommendations, TalentWeights |-> Weights,
     TalentWatchlists |-> Watchlists,
     TalentWatchlistDetail |-> WatchlistDetail, NotFound |-> NotFound]

Route == DOMAIN Pages
Switch(r, has) == IF r = "Dashboard" THEN Home(has) ELSE Pages[r]

-----------------------------------------------------------------------------
(* The client *)

SignedIn == held # SignedOut
Perms == IF SignedIn THEN Granted(held) ELSE {}
Has == IF SignedIn THEN held \cup Perms ELSE {}
Shows(r) == Switch(r, Has)

\* PermGate and PermAnyGate.
Admits(r) == Shows(r).gate = {} \/ Shows(r).gate \cap Perms # {}

\* The links of the navigation bar, which a signed-in user sees on every page.
NavLinks ==
    {"Dashboard", "Notifications", "ChangePassword"}
    \cup Shown({<<{"product.read", "product.write"}, {"Products"}>>,
                <<{"kpi.read"}, {"Kpi", "AlertEvents"}>>,
                <<{"metric.read"}, {"EnvSources", "EnvObservations",
                                    "MetricDefinitions"}>>,
                <<{"alert.manage"}, {"AlertRules"}>>,
                <<{"alert.ack"}, {"AlertEvents"}>>,
                <<{"report.schedule", "report.run"}, {"Reports"}>>,
                <<{"talent.read", "talent.manage"},
                  {"TalentCandidates", "TalentRoles", "TalentRecommendations",
                   "TalentWatchlists", "TalentWeights"}>>,
                <<{"user.manage"}, {"AdminUsers"}>>,
                <<{"allowlist.manage"}, {"AdminAllowlist"}>>,
                <<{"mtls.manage"}, {"AdminMtls"}>>,
                <<{"retention.manage"}, {"AdminRetention"}>>,
                <<{"monitoring.read"}, {"MonLatency", "MonErrors",
                                        "MonCrashes", "AdminAudit"}>>}, Perms)
    \cup (IF {"product.read", "product.write"} \cap Perms # {}
             /\ "product.import" \in Perms THEN {"Imports"} ELSE {})

\* Buttons on the screen.
Offered(r) ==
    {b \in Shows(r).buttons : b.for \in Perms \cup {Anyone}}

TypeOK ==
    /\ roles \in RoleSets
    /\ held \in RoleSets \cup {SignedOut}
    /\ route \in Route
    /\ tasks \subseteq Seq(Call)
    /\ refusals \subseteq Route \X Call
    /\ changes \in 0..MaxChanges

Init ==
    /\ roles \in RoleSets
    /\ held = SignedOut
    /\ route = "Login"
    /\ tasks = {} /\ refusals = {}
    /\ changes = 0

\* The page at r is mounted for a user who has the roles h; the tasks of the
\* page that is left can no longer show anything.
Mount(r, h) ==
    LET has == IF h = SignedOut THEN {} ELSE h \cup Granted(h)
        p == Switch(r, has)
    IN  /\ route' = r
        /\ tasks' = IF p.gate = {} \/ p.gate \cap has # {}
                    THEN p.fill \cup p.once ELSE {}

\* The answer to a login carries the user's roles and permissions.
SignIn ==
    /\ route = "Login" /\ ~SignedIn
    /\ held' = roles
    /\ Mount("Dashboard", roles)
    /\ UNCHANGED <<roles, refusals, changes>>

\* The button of the navigation bar; a change of the password does the same.
SignOut ==
    /\ SignedIn /\ route # "Login"
    /\ held' = SignedOut
    /\ Mount("Login", SignedOut)
    /\ UNCHANGED <<roles, refusals, changes>>

\* The refresh loop finds the session unusable: the state is cleared and the
\* page stays.  A gate unmounts what it no longer admits.
SessionEnds ==
    /\ SignedIn
    /\ held' = SignedOut
    /\ tasks' = IF Shows(route).gate = {} THEN tasks ELSE {}
    /\ UNCHANGED <<roles, route, refusals, changes>>

\* Slip: only the dashboard leads to the login form.
RedirectHome ==
    /\ \/ /\ ~SignedIn /\ route = "Dashboard"
          /\ Mount("Login", held)
       \/ /\ SignedIn /\ route = "Login"
          /\ Mount("Dashboard", held)
    /\ UNCHANGED <<roles, held, refusals, changes>>

\* Root, Login and the gates redirect.
Redirect ==
    /\ \/ /\ ~SignedIn
          /\ Shows(route).gate # {} \/ route = "Dashboard"
          /\ Mount("Login", held)
       \/ /\ SignedIn /\ route = "Login"
          /\ Mount("Dashboard", held)
    /\ UNCHANGED <<roles, held, refusals, changes>>

\* A link, or an address typed by hand.
Visit(r) ==
    /\ r # route
    /\ Mount(r, held)
    /\ UNCHANGED <<roles, held, refusals, changes>>

\* Slip: without the bound.
AssignRolesFreely(R) ==
    /\ R # roles
    /\ roles' = R
    /\ changes' = changes + 1
    /\ UNCHANGED <<held, route, tasks, refusals>>

\* assign_roles; the client keeps the permissions it was given.
AssignRoles(R) ==
    /\ changes < MaxChanges
    /\ R # roles
    /\ roles' = R
    /\ changes' = changes + 1
    /\ UNCHANGED <<held, route, tasks, refusals>>

Press(b) ==
    /\ Admits(route)
    /\ b \in Offered(route)
    /\ Cardinality(tasks) < MaxTasks
    /\ tasks' = tasks \cup {<<b.call>>}
    /\ UNCHANGED <<roles, held, route, refusals, changes>>

\* The next request of task t is answered.  The handler decides by what the
\* database grants at that moment; after the last request of a button that
\* reloads, the tasks of the page start again.
Answer(t) ==
    LET c == Head(t)
        ok == SignedIn /\ Permitted(c, Granted(roles))
        again == \E b \in Shows(route).buttons : b.call = c /\ b.reload
    IN  /\ t \in tasks
        /\ tasks' = (tasks \ {t})
                    \cup (IF Tail(t) # <<>> THEN {Tail(t)} ELSE {})
                    \cup (IF ok /\ again THEN Shows(route).fill ELSE {})
        /\ refusals' = IF SignedIn /\ ~ok /\ held = roles
                       THEN refusals \cup {<<route, c>>} ELSE refusals
        /\ UNCHANGED <<roles, held, route, changes>>

Next ==
    \/ SignIn \/ SignOut \/ SessionEnds \/ Redirect
    \/ \E r \in Route : Visit(r)
    \/ \E R \in RoleSets : AssignRoles(R)
    \/ \E b \in Shows(route).buttons : Press(b)
    \/ \E t \in tasks : Answer(t)

\* A render follows every change of the state it depends on.
Spec == Init /\ [][Next]_vars /\ WF_vars(Redirect)

-----------------------------------------------------------------------------
(* Properties *)

\* Every request that a page makes by itself, and every button it shows, is
\* allowed to whoever the gate of the page admits, unless the roles changed
\* after sign-in.  The exceptions are the history card of a product, which
\* says so itself, and the report page of users who may run reports but not
\* schedule them or read metrics: it offers them the form, and leaves its
\* lists of sources and definitions empty.
OnlyKnownRefusals ==
    refusals \subseteq {<<"ProductDetail", "product_history">>,
                       <<"Reports", "create_report_job">>,
                       <<"Reports", "list_env_sources">>,
                       <<"Reports", "list_metric_definitions">>}

\* No link of the navigation bar or of the page leads to a card that says
\* "Not authorized", whatever roles the user has.
LinksAdmit ==
    SignedIn /\ Admits(route) =>
        \A r \in NavLinks \cup Shows(route).links : Admits(r)

\* Pages that can be reached from the navigation bar by following links.
Linked ==
    LET step[n \in 0..4] ==
            IF n = 0 THEN NavLinks
            ELSE step[n - 1] \cup UNION {Shows(r).links : r \in step[n - 1]}
    IN  step[4]

\* Every page whose gate admits the user can be reached without typing its
\* address.
NothingHidden ==
    SignedIn =>
        {r \in Route \ {"Login", "NotFound"} : Admits(r)} \subseteq Linked

\* A user whose session ends on a gated page is taken to the login form.
GateLeadsToLogin ==
    ~SignedIn /\ Shows(route).gate # {} ~> Shows(route).gate = {} \/ SignedIn

\* The pages fit the roles: they ask for what the user may have, link to what
\* they may open, and hide nothing from them.
PagesFitRoles == TypeOK /\ OnlyKnownRefusals /\ LinksAdmit /\ NothingHidden
==============================================================================
