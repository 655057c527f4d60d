# Mattermost GitLab plugin: TLA+ models, model checking and proofs

This directory holds a verification project for `mattermost-plugin-gitlab`: its server
and its web client. TLA+ modules model the parts of the plugin where several
goroutines, several cluster nodes, GitLab and the key-value store meet; TLC checks them on
small instances; TLAPS proves some results for every size. All paths below are relative to
`src/`.

## 1. The system

The plugin runs inside every node of a Mattermost cluster. The nodes share one key-value
store, one configuration (saved by the server and sent to every node), a cluster mutex and
a cluster event bus. Everything else is memory of one node. Requests of the web client,
slash commands, GitLab's webhook calls and configuration hooks run in goroutines of their
own, on any node.

| Part | State | Operations | Hard behaviour | What makes it correct |
|---|---|---|---|---|
| Token lifecycle (`server/plugin.go`) | `<user>_userinfo`, `<user>_usertoken`, old `<user>_gitlabtoken`, mutex `<user>-oauth-token` | use, refresh, migrate the old key, connect, disconnect, forced disconnect | refresh tokens work once; several requests refresh; a disconnect takes no mutex; three writes of a migration; lost answers | no token is exchanged twice; a credential survives crashes; the mutex is given back if GitLab answers |
| Encryption key rotation (`server/configuration.go`, `server/plugin.go`) | configuration with key and fallback key of each node, tokens, mutex `gitlab-reencrypt-lock` | `OnConfigurationChange`, `reEncryptUserData`, reads with fallback, writers | each node starts a job; writers with old keys; restarts; errors disconnect users | nobody loses a token to a rotation; old tokens do not come back; the old key is forgotten |
| Subscriptions (`server/subscriptions.go`, `server/command.go`) | one value with all subscriptions, the group lock, the sidebars | add, delete, notify on a change of the lock | read-modify-write of one value; failing writes that are only logged | one subscription per channel and path; what is deleted stays deleted |
| OAuth connection (`server/api.go`, `server/oauth.go`, `server/cluster.go`) | stored states, waiting goroutines, the broker of each node, events | connect, complete, publish, cluster event, close | callback and waiting goroutine on different nodes; timeout against late answer; shutdown | silence means success; success is heard; a state is used once; no leaked subscription |
| Instances (`server/instance.go`, `server/flow.go`, `server/command.go`) | list of names, map of configurations, default name in the settings, fields of `FlowManager` | wizard, install, uninstall, set default | two keys and the settings change in separate steps, from copies | the default has credentials until it is uninstalled; list and map agree |
| Webhooks (`server/webhook.go`, `server/webhook/`) | mappings of GitLab names to users, infos, subscriptions | one handler per kind of event, dispatch | users come and go meanwhile; recipients overlap; visibility, group lock, features, labels | at most one message and one post; nothing shown to who may not see it; who is assigned is told |
| GitLab API client (`server/gitlab/`) | none; goroutines that share variables | paginated reads, `GetLHSData`, `fetchYourPrDetails` | shared `err` and `resp`, partial failures | an incomplete answer is not given as a complete one |
| Setup wizard (`server/flow.go`) | one flow state per user, fields shared by all | steps, buttons, delegation | graph of steps with jumps between flows | every path ends, and at a step that exists |
| Settings and reminders (`server/api.go`, `server/command.go`) | the stored user info | settings, daily reminder | info read early and written late | settings and disconnections are not undone |
| Permalink previews (`server/permalinks.go`) | none | replacing links of a post | goroutines per link, limit on their number | every link replaced at its place |
| Web client: store and sidebars (`webapp/src/websocket`, `actions`, `reducers`, `sidebar_buttons`, `rhs_sidebar`) | redux store, `refreshing` of each component | requests, websocket messages, clicks | late, lost and overtaken answers, lost events, components that unmount | at rest it shows what the server has; it asks once at a time and never waits for ever |
| Web client: dialogs (`components/modals`, the selectors, `react_select_setting`, `validator`) | contents of the modals, `yourProjects`, the state of the form and of its selectors | open, close, choose, load options, submit | loads that nothing cancels; the button works while a form submits; answers that come to another form; a list kept from an earlier form | labels are those of the chosen project; an issue goes to a listed project; no form submits for ever |
| Web client: right panel (`sidebar_right`, `rhs`, `selectors`) | view and list shown, lists of merge requests, their details, `prevPrs` of the hook | buttons, App Bar, popout, lists and details that arrive | details are asked for by effects of a render and joined when they are rendered; pushes between list and details | an icon is that of the commit in the list; the list that is shown has its details; rendering does not ask for ever |
| Web client: tooltips and popovers (`link_tooltip`, `user_attribute`, `tooltip_utils`) | position of the shared expression, data of each tooltip, `gitlabUsers` | hover, open, answers, connection | state that outlives a test; answers that come when something else is open | a name is kept for the user it is of; a valid link is previewed |
| Audit, support packet, build, mocks | none of their own | reporting | none | not part of the behaviour modelled |

How they meet: the OAuth connection writes what the token lifecycle and the webhooks read;
a rotation rewrites what the token lifecycle stores; the configuration hook starts a
rotation, notifies about locked subscriptions and replaces the settings the instances code
changes; webhooks read subscriptions and, through the creators' tokens, permissions.

`PROJECT.json` lists every component with its status and every hazard at its line.

## 2. The modules

An action stands for the code between two accesses to shared state (the store, a lock, an
in-memory structure of a node, GitLab). Deferred unlocks are joined to the last access
before them: nothing happens in between, and releasing only enables others. `MC*.tla` hold
what only TLC needs (symmetry sets, named instances). Operators named "Mutation:" in a
comment are faulty variants of the definition that follows them; they are not part of any
next-state relation, and serve to show that the properties notice such a fault.

* **TokenAccess**: one user's credential. `info`, `token`, `legacy` are the three keys,
  `lock` the cluster mutex; tokens are numbered as GitLab issues them, `due` are the ones
  near expiry, `dead` the exchanged ones. A worker is a goroutine; `pc` says at which call
  it is: `read`/`lock`/`recheck`/`refresh`/`store`/`use` are `getOrRefreshTokenWithMutex`,
  `refreshToken` and `useGitlabClient`; `mig*` is `migrateGitlabToken`; `con*`
  `completeConnectUserToGitlab`; `disc`/`del*` `disconnectGitlabAccount`; `force*`
  `forceDisconnectUser`. `phase` is history. The store's read errors, write errors,
  GitLab's errors and lost answers, and the end of a node are actions.
* **TokenAccessProofs**: the theorems about it (section 5).
* **KeyRotation**: nodes with a key and a fallback key, one job per node and key, writers
  that take the key first and store later. A ciphertext is its key, the number of the
  token, and whether a wrong key would find valid padding. `Readable` is
  `getGitlabUserTokenByMattermostID`. A job lists the keys page by page (`ListKeys`): the keys
  have places in one order (`Place`), other keys may come and go between them (`Others`), what
  is no token is picked out of a page after it was fetched (`OnPage`), and a page that is not
  full of tokens is taken for the last. A new key may be one that AES refuses (`refused`):
  `OnConfigurationChange` accepts it, and every `encrypt` with it fails. **UserTokens** is the abstract specification it
  implements: tokens are replaced by newer ones or dropped, and nothing else happens to them.
  **KeyRotationProofs**: the theorems about it.
* **Subscriptions**: the map as a list of subscriptions per path; a group's path is the
  name with a slash, so "delete" looks at both. Commands are `Get`, `Set`, `Send`.
  `Unsubscribe` and `Subscribe` choose the command's input; the channel's sidebar is `view`.
  **SubscriptionsProofs**: the theorems about it.
* **OAuthConnect**: requests (`connectUserToGitlab` and its goroutine), callbacks
  (`completeConnectUserToGitlab`), the broker and the cluster bus. Channels have room for
  one value; sending does not block; an error cannot be decoded by another node.
  **OAuthConnectProofs**: the theorems about it.
* **Instances**: the two stored values, the saved settings, the configuration of each node,
  the fields of each node's `FlowManager`; workers run the wizard's dialogs and commands.
  `GetsInstance`, `CanConnect`, `ResolvedURL` and `OAuthURL` are what a request on a node
  finds, with a store that it can read or not and with the preregistered application or
  without.
  **ConfigurationProofs**: the theorems about it and about GitlabClient, which shares no state
  with it.
* **Webhook**: GitLab (an item with author, assignees, reviewers, labels; what happens to
  it), the users' mappings, and goroutines that turn an event into a list of handlers, with
  one operator per kind of event for the direct messages and one for the posts in channels,
  clean it and send it one handler at a time. Texts are reduced to their purpose (`why`);
  a handler counts how often a channel is in it (`chans`), and subscriptions are known by
  their positions (`Subscribed`, `Asking`). The features and labels of a subscription are one
  text, in which a feature's name is looked for: `Spells` are the names that the text of a
  label has in it, and `Named` finds them there too. **WebhookProofs**: the theorems about it.
* **Connections**: the user info and the two mappings, entry by entry, under connections
  over earlier ones, disconnections, settings and daily reminders. A worker is a goroutine
  with the list of the writes it has still to make (`ConnectSteps`, `DisconnectSteps`, ...),
  each on the info it read at its start.
* **ConnectionsProofs**: the theorems about it.
* **GitlabClient**: one call of the API client with everything the exchanges with GitLab
  interleave with: the goroutines of `GetLHSData` and the variable `err` they share
  (`Store` and `Return` are the assignment and the return statement), pages, the group lock
  (`lock`) and the client made for the group of an earlier configuration (`client`). A call by
  number names its project by a path, which may be a former one that GitLab redirects; only
  the path is checked (`Passes`). A list
  that is filtered is the list at a set of positions (`At`), which the proofs need: it is
  defined without recursion.
* **Webapp**: the two constants that the four modules of the web client share.
* **WebClient**: `account`, `token`, `lists` and `subs` stand for the server; a request is
  sent, served and received in three steps, a websocket event is published and delivered in
  two. `jobs` are connections and disconnections under way, any number at a time: each writes
  or deletes info and token one by one (`Write`) and publishes its event at the end
  (`Announce`); a write may fail, which ends a connection and is only logged by a
  disconnection, and a job may end with its node (`JobFails`). `untold` and `mixed` are history.
  `shown`, `held`, `heldSubs`, `refreshing` are the redux store and the components' state;
  `Show` is the reducers of `RECEIVED_CONNECTED` with the updates of the components it
  causes.
* **IssueForms**: both dialogs. `about` and `projects` are the store (the contents of the
  modals, `yourProjects`); `form`, `target`, `filled`, `valid`, `selection`, `submitting`
  the form that is mounted and `options` its selectors. `Mount` and `Close` are the first
  render and the unmounting, with all that they reset. `ChooseProject` starts the loads of
  both effects of `IssueAttributeSelector`, `Loaded` and `LoadFails` are the end of
  `loadSelectOptions` with `filterSelection`. `Submit` is `handleCreate` up to its `await`,
  `Succeed` and `FailRequest` what follows it.
* **RightPanel**: the main window or a popout. Every action ends with `Render`: a change of
  the store renders the panel, and its effects compare the lists with `usePrevious`
  (`Differs` is `shouldUpdateDetails`) and ask for details. `StatusOf` is `mapPrsToDetails`,
  `Icon` what `GitlabItems` draws. `gap` and `unsettled` are history.
* **Popovers**: `advanced` is `lastIndex` of the expression that all tooltips test; `Hover`
  and `StoreConnected` run the tooltip's effect (`Preview`); `OpenPopover` and
  `ReceiveUser` are `UserAttribute` and `getGitlabUser`. `accounts` stands for the plugin.
* **WebClientProofs**: the theorems about the four modules of the web client.

Abstractions worth knowing. Texts, logs, audit records and websocket payloads that nobody
acts on are left out. In Webhook the list of handlers is made in one step; child pipelines,
pushes without commits, the (never used) feature `pull_reviews`, the parsing and signature
of the body are left out. In TokenAccess
the credential of one user stands for all: no code path touches two users' keys, other than
the rotation, which has its own module. In Instances the validity of a URL is part of the
constant `Url`. In GitlabClient the order of the answer of `GetYourPrDetails`, the
milestones of a project's group, which are treated as its own, are left out. In WebClient the
mappings of a connection are left out (Connections has them), and lists and subscriptions are
the number of changes they have seen. In
IssueForms every project offers a fixed set of values, texts are empty or not, and the
search for an issue may find any. In RightPanel the two lists change one at a time, which
their independent effects allow; what GitLab says of a commit's pipelines does not change,
and approvals are left to the question whose they are. In Popovers a link is what the code
looks at (`Shape`).

How the three modules of the client meet WebClient: they share the store, but no part of it
that WebClient writes is written by them. What they take from it enters them as arbitrary
inputs: any list of merge requests (`StoreLists`), any order of connections
(`StoreConnected`).

## 3. What TLC checks

Runs with `expect: pass`:

| Run | Bounds | Properties |
|---|---|---|
| `token` | 2 workers, 1 account, 3 tokens, 1 fault | `TypeOK`; `NoReplay`: no refresh presents an exchanged token; `CredentialKept`: until a disconnect begins a credential stays stored; `LockReleased` (liveness): whoever takes the mutex gives it back, unless its exchange with GitLab hangs |
| `rotation` | 2 nodes, 2 users, 1 writer, 1 rotation, 2 writes, 1 fault, pages of one key, one other key that may stand between those of the two tokens | `RotationInv`: types, nobody is disconnected (`RotationKeepsUsers`), and jobs leave no old token of the first page behind (`OldTokensMigrated`), with a key that AES takes; `RotationIsTransparent`: refinement of UserTokens; `FallbackEnds` (liveness) |
| `subscriptions` | 2 workers, a project and a group of one name, 2 channels, 2 users, 4 commands, 1 change of the lock, 1 failing write | `SubscriptionsInv`: types, and one subscription per channel and path under every interleaving; `CommandsAlone` (what is deleted is gone, who is locked out is told) and `ViewCurrent` (the sidebar) for commands that do not overlap |
| `oauth` | 2 nodes, 2 requests (one user in two windows, or two users), 2 callbacks, 2 calls, 1 fault | `OAuthInv`: types, and silence means connected; `SuccessIsHeard`, `StateUsedOnce`, `SubscriptionEnds` (liveness) |
| `instances` | 2 nodes, 2 workers, 2 names, 1 URL, 6 operations, 1 fault | `DefaultWasInstalled` under every interleaving; for operations that do not overlap or fail `InstancesInv`: types, and list and map agree, and `DefaultResolves`: every node finds its default until somebody uninstalls it |
| `webhook` | 2 accounts, 2 users, 2 channels, 1 event of any of the ten kinds from any earlier state, 1 mention, 1 change of the users, 1 label whose text is `confidential_issues` | `WebhookInv`: types, and one message or post of an event; `AssignedIsTold`; `ConfidentialAsked`: a confidential issue, or a comment on one, is posted only where the text of one subscription asks for it and its labels fit; `PostsStayInside` |
| `connections` | 2 users, 2 accounts, 2 workers, reminders on 2 days, 1 fault | `TypeOK`; `OwnAccountOnly` under every interleaving; `ConnectionConsistent` and `OneReminderADay` for operations that do not overlap or fail |
| `client` | 2 projects, 2 groups, 2 lists, pages of one item, 1 change of the lock or transfer, 1 failing exchange | `ClientInv`: types, and nothing outside every lock in force meanwhile is returned or changed, or, of calls by path and number, for a path outside; `AnswerFits`: an answer given without a failure is whole, and an error has a reason; `EveryCallAnswered` (liveness) |
| `web` | 2 accounts, 2 channels, 3 connections, disconnections, changes, clicks or dropped sockets, 1 failing request or write | `WebInv`: types, and a component has the icon exactly while one request of its own is under way; `ConnectionSettles`: at rest it shows what is stored, if the plugin has announced it or nothing overlapped or failed; `RefreshIsSeen`; `SpinnerEnds` (liveness) |
| `forms` | 2 forms, 1 post, 1 channel, 1 issue, 2 projects with a label of their own, 3 choices, 2 submissions, 1 failing or lost answer | `FormsInv`: types, labels end as those of the chosen project, and who submits has a request under way; `SubmitsWhatIsListed`: an issue goes to a project the list has; `SavingEnds` (liveness) |
| `panel` | 2 merge requests, 2 commits, 2 changes of the lists, 2 clicks, 1 failing request; main window or popout | `PanelInv`: types, and no icon is that of another commit; `DisplayedHasDetails`: a list that stays in view gets its details; `PanelSettles` (liveness): rendering stops asking |
| `popovers` | 4 links (issue, merge request of another GitLab, commit, host with a port), 2 hosts, 2 users, 2 names, 5 steps, 1 failing request | `PopoversInv`: types, and a name is one its user has had; `RefusedAtMostOnce`: of two valid links in a row one is previewed |

Why these bounds. The races in this code are between two parties (two requests, a request and
a disconnect, a job and a writer, a command and a command, a callback and a waiting
goroutine), so two of each suffice to show them; a third token is needed for a token that was
refreshed to be refreshed again, and for a reconnection after a refresh. One fault at a time
is what the code tries to survive; every place where it can strike is tried. With a second
rotation, or a key that AES refuses, users are disconnected (`ConcurrentJobsKeepUsers`,
`AnyKeyKeepsUsers`, section 4). Four subscription
commands allow two adds and two deletes to overlap; six operations of instances allow both
names to be installed through the wizard, one made the default and the other removed. Pages
of one key and a place for another key between two tokens are the least with a full page, a
page that the other key cuts short, and a token that moves to another page. Three steps of the
web client allow a connection and a disconnection to overlap and a socket to drop meanwhile.
One event suffices for webhooks because nothing is kept between two calls; what was there before the event is arbitrary. Two forms are what it
takes for an answer or a list to come to another form than the one that asked, three choices
for a project to be left, labels to be chosen and a second project's to arrive; two changes of
a list for details to be those of an older one; five steps for a connection and three links in
a row, and for a user to connect, be asked for and change accounts while another popover is
open. Operations are counted (`MaxOps`, `MaxCalls`, `MaxForms`, ...), so the systems come to
rest and the runs do not look for deadlock; that nobody waits for ever is the liveness
properties' business.

Symmetry is used only in runs without liveness properties, over sets whose members the
modules never tell apart.

Fairness. `LockReleased` assumes that a goroutine which can run runs (`WF` of each worker's
`Step`), which includes that the store's calls return, but not that GitLab answers:
`refreshToken` exchanges the token with `context.Background()` and the default HTTP client,
which have no timeout, so a worker at `refresh` or `use` may stay there (`AwaitsGitLab`), and
the property excepts a holder of the mutex that does. Requests, disconnects, faults and time
are not fair. `FallbackEnds` assumes that every node is
told of a changed key and that its job runs; rotations, writers and restarts are free.
`SubscriptionEnds` assumes that the goroutines of requests run and that 45 seconds pass;
nothing is assumed of callbacks, events or users. `EveryCallAnswered` assumes that goroutines
run and exchanges with GitLab end, `SpinnerEnds` that `fetch` settles, well or badly, and that
the browser runs what waits for it; events, clicks and the server's changes are free. For the
same reason `SavingEnds` (`WF` of `Respond`) and `PanelSettles` (`WF` of `AnswerDetails`) assume only
that every request to the plugin ends, if by an error of the browser. That goroutines and
handlers run is what the runtimes of Go and of a browser do, and no lock but the user's is
contended for ever because its holder is fair as well; that exchanges with GitLab end is assumed
where it is named, and nowhere else.

Every property has a mutant in `PROJECT.json`: a plausible fault in one definition, under
which the property fails in the same run.

## 4. Where the code and its words part

Each line states what a comment, a message, the documentation or a reader of the code would
expect, and how the code departs from it. The property is defined in the module, and the
configuration `MC<Module>Open.cfg` beside it shows the shortest behaviour that violates it.
TLC stops at the first violation, so each of these files has one definition at a time; to
see another, take away the comment mark before it and put one before the first. For example:
`tlc -config MCTokenAccessOpen.cfg MCTokenAccess.tla`. None of these is one of the runs of
section 3.

| Module | Property | What happens |
|---|---|---|
| TokenAccess | `RevokedIsDead` | a late 401 or invalid_grant for an old token deletes the newer, good one |
| | `DisconnectIsFinal` | a disconnect leaves the old key, from which the user still counts as connected |
| | `NoOrphanToken` | a refresh under way stores its token after the disconnect |
| | `LockAlwaysReleased` (with `FairSpec`) | the exchange of a token has no timeout and runs under the user's mutex: if GitLab never answers, no node serves that user's requests once the token is due |
| KeyRotation | `ConcurrentJobsKeepUsers` | two rotations in a row: the second job runs first and disconnects everybody |
| | `ClearedWhenMigrated` | a writer with the old key stores a token after the job listed the keys |
| | `ReadableDuringRotation` | saving another setting drops the fallback key; a wrong key that unpads hides it |
| | `AllOldTokensMigrated` (with `MaxKey = 1`) | keys are picked out of a page after it was fetched, and a page with fewer tokens than `keysPerPage` ends the listing: tokens on later pages are never re-encrypted, and the fallback key is cleared |
| | `AnyKeyKeepsUsers` | a key of a length that AES refuses is accepted as a setting; the job can encrypt nothing with it and disconnects everybody |
| Subscriptions | `UnsubscribeDeletes` | a command that read the map earlier brings a deleted subscription back |
| | `LockedTold` | a subscription that was checked before the lock changed is stored after it, unannounced |
| OAuthConnect | `FailureLeavesNothing` | the info is kept when the token could not be stored |
| | `TimeoutMeansNobodyCame` | an error on another node is lost; the user is told to check the SiteURL |
| Instances | `WizardKeepsItsURL` | two wizards share the URL: credentials are saved with the wrong instance |
| | `DefaultStays` | a wizard on a node with old settings saves them over newer ones |
| | `UninstalledIsGone` | an overlapping installation brings a removed instance back |
| | `RefusedIsInstalled` | a failing second write leaves a name that can be neither installed nor uninstalled |
| | `ConfigurationImmutable` | `setDefaultInstance` changes the shared configuration in place |
| | `ConnectHasCredentials` | with the preregistered application there are credentials, and `canConnect` says no unless there is an instance or the old settings as well |
| Webhook | `FailedPipelineIsTold` | the message about a failed pipeline is never sent to its only recipient |
| | `IssueAssignedIsTold` | nobody is told of an assignment to an existing issue |
| | `ReviewRequestIsTold` | who is assigned and asked for a review at once is told the first only |
| | `SenderNotTold` | pushes and tags compare display names with usernames |
| | `ClosedMeansClosed` | every update of a closed merge request is announced as its closing |
| | `OnlyAsked` | "confidential_issues" contains "issues" |
| | `ConfidentialByFeature` | the label of a subscription contains "confidential_issues", and counts as the feature |
| | `ConfidentialNotesAsked` | comments on confidential issues are posted to every channel that asked for comments |
| | `ConnectedIsReached` (two changes) | two users of one GitLab account overwrite and delete each other's mapping |
| Connections | `ToldMeansDisconnected` | the reminder finds the token revoked, deletes the info, says so, and the line after it stores the info again |
| GitlabClient | `FailureIsReported` | the goroutines of `GetLHSData` share `err`: a list that failed is returned as an empty one |
| | `ClientFollowsLock` | the command cannot be registered and the client of the old group stays |
| | `TodosAreTold` | the group lock, a path, is compared with the display name of a project |
| | `LabelsOrError` | a label beyond the first page is not found, and the error made of it is nil |
| | `ProjectsComplete` | GitLab does not say how many pages a long list has, and the first is taken for the last; members and searches read only one page as well |
| | `LockHoldsByNumber` | an issue or a merge request is asked for by a former path inside the lock; the check is of the path, and GitLab redirects to the project outside |
| WebClient | `ConnectionOutlivesAnswer` | an answer given before a connection or disconnection arrives after the event and replaces it, until the next reconnection |
| | `ConnectionOutlivesOverlap` | a disconnection deletes the info that a connection has just stored, and its event comes before the connection's: the client shows an account that is gone; or the other way round |
| | `ConnectionOutlivesFailure` | the token cannot be stored, and the info stays without an event; or the info cannot be deleted, and the disconnection is announced |
| | `ListsAreOwn` | after a connection over an existing one the sidebar keeps the numbers of the other account |
| | `NoSubscriptionsShown` | a channel chosen while the panel waits for another is not asked for: "There are no GitLab subscriptions available in this channel." |
| IssueForms | `CreatedOnce` | a form is sent again while it submits, or after an answer that was lost: two issues |
| | `AnswerClosesOwn` | a form is cancelled after it was sent; the answer closes the form that was opened next |
| | `MilestoneFits` | a milestone of the project that was left, chosen while the options of the next one were on their way, stays: a load that began without a milestone filters none |
| | `AttributesOfProject` | a form is sent before the options of the new project are there, with labels of the one that was left |
| | `ChoiceKept` | options that are loaded a second time take back what was chosen since the load began |
| | `ReplyWhereAsked` | a second "/gitlab issue create" changes what the open form is about |
| RightPanel | `AlwaysHasDetails` | lists that change while another is shown, or whose merge requests get new commits, are not asked for again when they are shown |
| | `CrossMeansFailed` | running and canceled pipelines show the cross of a failed one |
| | `ApprovalsAreOwn` | two merge requests of one commit: both show the approvals of the first |
| | `AppBarShows` | the icon in the App Bar chooses the subscriptions and closes the panel that shows a list |
| Popovers | `NeverRefused` | the second of two links in a row is not recognised: the expression has the g flag and is shared |
| | `ConnectedHasURL` | connected with an empty `gitlab_url`: making a URL of it throws in the tooltip |
| | `NamesAreCurrent` | a name is kept after its user connected as somebody else or disconnected |
| | `NoPreviewUnconnected` | a preview stays after the disconnection |

## 5. What is proved

`TokenAccessProofs` proves, for any number of workers, accounts, tokens and faults, from the
assumption `ConstantsAssumption` of TokenAccess alone (bounds are natural numbers, `None` is
none of the values it stands beside):

* `Invariant`: `Spec => []IInv`;
* `TypeCorrect`: `Spec => []TypeOK`;
* `RefreshOnce`: `Spec => []NoReplay`;
* `CrashKeepsCredential`: `Spec => []CredentialKept`.

`NoReplay` and `CredentialKept` are not inductive. `NoReplay` speaks of a worker at
`refresh`, but the token it holds was read one step earlier, so the stored token must be
known to be alive whenever the mutex is free (`LiveInv`: the only time the stored token is
dead is while the holder of the mutex is about to store its successor). That needs mutual
exclusion (`LockInv`), and that two workers never hold the same fresh token (`LocalInv`): a
reconnection stores without the mutex, and would otherwise be able to put back what another
worker just exchanged. The old key complicates this: a migration copies a token to the new
key while the old one still has it, hence the clause that both are equal only at the end of
a migration. `CredentialKept` needs to know at which label the migration is, since it deletes
the old key (`KeptInv`). `IInv` is the conjunction; TLC checked it first, and the proof has
one lemma per conjunct with one step per action.

`ConnectionsProofs` proves, for any number of users, accounts, workers, days and faults:

* `Invariant`: `Spec => []IInv`, with `IInv == TypeOK /\ OwnWork /\ OwnAccountOnly`;
* `TypeCorrect`: `Spec => []TypeOK`;
* `NotificationsAreOwn`: `Spec => []OwnAccountOnly`.

`OwnAccountOnly` says that a stored mapping leads to somebody who has had that account. A
mapping is written from the info that a goroutine read earlier, so the invariant must say of
every goroutine that what it holds is its own user's (`OwnWork`); with that it is inductive.

From the same assumption it proves what holds for a user whose requests and commands follow
one another, whatever those of other users do:

* `Ordered`: `Spec => []OrderInv`;
* `EntriesAgree`: `Spec => []ConnectionConsistent`;
* `RemindedOnce`: `Spec => []OneReminderADay`.

Both properties speak of a user at rest, and between the first and the last write of an
operation they are false. `AgreeInv` and `RemindedInv` therefore say what the writes that are
left lead to: `Heading` that the last write to each entry, or the entry itself where none is
left, makes info, token and mappings agree, and `Reminding` that whoever has posted a reminder
has still to store its time. `AloneInv` is what makes the info that was read the stored one,
`ExclusiveInv` that nobody else's writes touch the mapping of the account. The lemmas before
them compute the writes of each list of steps once.

`KeyRotationProofs` proves, from `ConstantsAssumption` of KeyRotation:

* `RotationSafe`: `Spec => []RotationInv`;
* `Transparent`: `Spec => RotationIsTransparent`, that is, KeyRotation implements UserTokens.

Both are for any number of nodes, users, writers and faults, the second for any number of
rotations too. The parts of `RotationInv` that promise something do so after one rotation and
while the store answers, since otherwise they fail (section 4). With one rotation there are
only two keys and a node with the new key has the old one to fall back on, so no ciphertext
looks unreadable and nothing is dropped. That a job leaves no old token of the
first page behind needs `OnceInv`: from the first page on, each such token that has the old
key is on the list of the job that holds the mutex, or it is the one that the job re-encrypts
at the moment; and that the first page has it, whichever other keys there are and whichever
tokens are gone, needs a lemma on how many keys can stand before it. A
writer may still store a new token with the old key, so both speak only of the tokens that
were there before the change (`ver = 0`). The refinement needs to know what a job or a
writer holds between two calls of the store (`JobInv`, `WriterInv`): a swap succeeds only if
the store still has what the job read, so the number of the token stays.

`OAuthConnectProofs` proves, for any number of nodes, users, requests, callbacks and faults,
from `ConstantsAssumption` of OAuthConnect:

* `SilenceIsTrue`: `Spec => []OAuthInv`;
* `Heard`: `Spec => []SuccessIsHeard`;
* `UsedOnce`: `Spec => []StateUsedOnce`.

The invariant follows a success on its way, from the callback that has stored the info
(`CallbackInv`) to the event or the channel that carries it (`TrueInv`), so that whatever a
goroutine reads is true; a channel is closed only on a node that was shut down. `HeardInv`
says that a success which came in time is still in the channel until the goroutine reads
something. `StateInv` is what reading and deleting a state in two calls costs: without a race
the state has one carrier, and once it is used no carrier that found it good is left.

`ConfigurationProofs` proves, for any number of nodes, workers, names, URLs and operations,
from `ConstantsAssumption` of Instances:

* `InStepAtRest`: `Spec => []InstancesInv`;
* `DefaultListed`: `Spec => []DefaultWasInstalled`;
* `DefaultFound`: `Spec => []DefaultResolves`.

Two values written one after the other are in step only between operations. The invariant
says what a worker that is alone has read and written at each point (`CopiesInv`), and that
one which gives up before its first write has changed nothing; after a failure between the
two writes nothing is promised. `DefaultListed` holds of overlapping and failing operations
too: `WasInv` follows a name from the list into a node's configuration, a draft of the
settings and back. `DefaultResolves` needs more: the default of every node, of every draft and
of the saved settings is one that was installed or that somebody has withdrawn since
(`DefaultsKept`), and it is kept because no copy of the map or of the list that is written
back is older than the stored one as long as nothing overlaps.

The same module proves, for any number of projects, groups, lists and items, any size of a
page and any number of changes and failures, from `ClientAssumption` of GitlabClient:

* `LockIsKept`: `ClientSpec => []ClientInv`;
* `AnswersFit`: `ClientSpec => [](ErrorHasReason /\ (Totals = {TRUE} => AnswerFits))`.

It begins with `At`, the items at some positions of a list. The rank of a position among the
chosen ones grows with the position and takes every value (`RankGrows`, `RankTaken`), so that
`At` has the items it should (`AtElements`), is the whole list if all are chosen (`AtAll`),
and grows by one item when one position is added (`AtMore`). `PageJoins` says what the pages
read so far are, and `PagesSuffice` that the number of pages `TotalPages` computes is enough.

`LockHolds` is not inductive: it speaks of answers only, and a lock may come to name the
client's group after the answer. The invariant says of each item a goroutine holds why it may
have it (`Fits`): it is of the project that was checked, or allowed, or of the client's group
while the project was in it; of what is answered, `MayShow` remains. `AnswerComplete` needs
how far each goroutine has come (`Complete`): as long as nothing failed and nothing changed,
it holds the first pages, or the allowed among the first items, and after its last page the
allowed part of the whole list. Of the projects this is true only if GitLab says how many
pages there are, hence `Totals = {TRUE}`: otherwise `ProjectsComplete` fails (section 4). That
an error has a reason needs that `err`, which all goroutines assign and read, is true only
after a failure.

`SubscriptionsProofs` proves, for any number of workers, names, channels, users, commands and
faults, from `ConstantsAssumption` of Subscriptions:

* `SubscribedOnce`: `Spec => []SubscriptionsInv`;
* `AloneTrue`: `Spec => []CommandsAlone`;
* `ViewsCurrent`: `Spec => []ViewCurrent`.

The lemmas it begins with are about lists: the index that is found first is right, `AddTo`
and `RemoveFrom` keep one subscription per channel and change only the links that the command
is about. `OnePerChannel` survives every interleaving because each copy of the map that a
command has is itself good (`WorkInv`), however old it is: what overlapping commands lose is
each other's changes. `CommandsAlone` and `ViewCurrent` need more (`SequentialInv`): the copy
of a command that is alone differs from the stored map only as the command says, and until it
has sent its message only the sidebar of its own channel may lag.

`WebhookProofs` proves, for any number of accounts, users, channels, goroutines, events and
changes, and for any projects and subscriptions, from `ConstantsAssumption` of Webhook (there
are finitely many accounts, since handlers for changed assignees are counted):

* `OneMessageEach`: `Spec => []WebhookInv`;
* `AssigneesAreTold`: `Spec => []AssignedIsTold`;
* `ConfidentialOnlyIfAsked`: `Spec => []ConfidentialAsked`;
* `PostsAreInside`: `Spec => PostsStayInside`.

Three of these speak of a call that is over. The invariant says at every step of the list what
has been sent and what is still to come. `HandlersShape` is the lemma they share: whatever the
event, its list is one of handlers for users followed by posts with the channels of some
subscriptions, which are active and, for a confidential issue or a comment on one, ask to see
it (`Shape`); there are no more posts than `Limit`, and cleaning leaves each channel once (`CleanList`). From
there on `Bounded` counts the posts that are left against those a channel has had, and
`Asked` says of every channel in the list what must be true when it gets its post. `Once`
needs that whoever was sent a message is among those already looked up. `Assigned` says that
the handler of the newly assigned is the first of the list and nobody in it has been looked up
before it: a user who could be reached all the time (`Steady`) is therefore not skipped. That
the closing and merging of a merge request come with its state (`Proper`) is what keeps the
list of an update from being that of a closed one.

`WebClientProofs` proves the theorems about the four modules of the web client; the modules
share no variable, and each theorem is about the behaviours of one of them. About WebClient,
for any number of accounts, channels, requests and steps:

* `OneRequestForOneIcon`: `Spec => []WebInv`;
* `ConnectionIsShown`: `Spec => []ConnectionSettles`;
* `RefreshIsShown`: `Spec => []RefreshIsSeen`.

A component that spins has one request under way and one that does not has none: `Sound`
says so of the queue of requests, and the lemmas on sequences what sending, answering and
forgetting one does to it. The other two promise something when nothing is under way, so their
invariants say what is shown or else asked for: unless the store has changed since the last
event about the connection (`untold`), the last one that is to come tells the truth
(`EventsInv`), and if there is none, what is shown is so or a request for
it is on its way (`ShownInv`); the lists are as new as they should be or were asked for since
(`ListsInv`). Connections and disconnections that come one by one and whole are told of:
the only one under way has its info still to write, or the store has what it will announce
(`OneByOne`).

About RightPanel, for any number of merge requests, commits, changes and clicks:

* `IconsAreOwn`: `PanelSpec => []PanelInv`;
* `DisplayedIsComplete`: `PanelSpec => []DisplayedHasDetails`.

No answer gives a commit another one's status (`Honest`); the panel remembers the lists of its
last render (`Remembered`), and the last of the requests for the list that is shown is for its
items as they are (`Latest`), whatever order the answers before it come in.

About IssueForms, for any number of posts, projects, values, forms, loads and requests:

* `FormsSafe`: `FormsSpec => []FormsInv`;
* `ListedOnly`: `FormsSpec => SubmitsWhatIsListed`.

That labels fit when nothing is loading says nothing of the moments before. The invariant
adds what makes the arrivals come right (`ChosenDecides`): as long as options arrived in the
order of asking, the last load on its way is of the chosen project, and its selector is
mounted; whatever earlier loads select, this one filters it with its own project's offers.
`ListedOnly` needs that a field says that it is valid only of a listed project
(`ValidIsListed`): a choice and every new list register the field again.

About Popovers, for any number of links, hosts, users and steps:

* `NamesOwn`: `PopoversSpec => []PopoversInv`;
* `RefusedOnce`: `PopoversSpec => []RefusedAtMostOnce`.

The first needs that an account is one that its user has had (`AccountsHad`): a name is kept
from it, whoever's popover is open by then. The second needs `RefusalResets`: after a refusal
the expression stands at its start, and only a match moves it.

TLC checked each of these inductive invariants on an instance before it was proved.

Only model-checked: liveness anywhere. Liveness under fairness and `ENABLED` are beyond the
installed provers, and so is induction over data with the theorems that take an operator; where
a number or a position is looked for, the proofs take the smallest one instead
(`NatLessThanWellFounded`). No module that is meant for proofs declares a RECURSIVE operator.

## 6. Plan

Done so far: the modules of section 2, the runs of section 3 and the proofs of section 5.
What would come next, in this order:

1. **Wizard**: the graph of steps and jumps of the flows of `server/flow.go`, with the state
   of each user's flow and delegation. Buttons that lead to steps their flow does not have
   (`stepDone` in the flows for OAuth and announcements, `stepWebhookWarning` in the one for
   webhooks) are where it starts.
2. `ResolveNamespaceAndProject` and the hooks in GitlabClient.

## 7. Not modelled

* Audit, support packet: they read state and write a log or a file.
* Permalink replacement in posts (`server/permalinks.go`): each goroutine writes to its own
  slot and the post is rewritten once; what could be wrong there is text.
* Commands that only ask GitLab and answer (help, about, me, list, pipelines), the texts of
  all of them and of messages.
* Of the web client: SVG icons, styles, theme and wording; the debounced search of the issue
  selector; the hook that turns a slash command into an event; the window that is opened for
  the connection; how tooltips and lists are laid out.
* Creating hooks in GitLab and `EnableChildPipelineNotifications`.
* Build tooling, generated mocks, test data.
