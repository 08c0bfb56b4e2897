----------------------------- MODULE OtaUpdate -----------------------------
(***************************************************************************)
(* The firmware update: user_update.c, started by a message (user_json.c     *)
(* calls user_ota_start with the URL for the image that is not running), then *)
(* called back by the lookup of the server's name and by the download.        *)
(*                                                                         *)
(* A URL is a record: scheme ("http", "https" or "none"), host, path, and      *)
(* short, whether the first slash after the host is among the 32 characters   *)
(* the code looks at.  domain and ota_path are global.                        *)
(***************************************************************************)
EXTENDS Integers

CONSTANTS
  Urls,       \* the URLs messages carry
  DnsEntries  \* the entries of the resolver's table (external)

VARIABLES
  domain,     \* the block domain points to: "NULL", "live" or "freed"
  ota_path,   \* ota_path, NoPath if NULL
  lookups,    \* lookups under way: [entry, url, disturbed], with disturbed set
              \* when a later message replaced ota_path
  update,     \* the request of the download under way, or NoRequest
  blocks,     \* updates allocated (with their pespconn and url) and not freed
  otaLogo,    \* the logo LED: 1 lit
  otaReboot,  \* system_upgrade_reboot was called
  asked       \* history: the last request sent, with disturbed

otaVars == <<domain, ota_path, lookups, update, blocks, otaLogo, otaReboot,
             asked>>

NoPath == "NULL"
NoRequest == [name |-> "none", path |-> NoPath, disturbed |-> FALSE]

OtaInit ==
  /\ domain = "NULL" /\ ota_path = NoPath
  /\ lookups = {} /\ update = NoRequest /\ blocks = 0
  /\ otaLogo = 1 /\ otaReboot = FALSE
  /\ asked = NoRequest

-----------------------------------------------------------------------------

\* Which URLs user_ota_start accepts.
WellFormed(u) == u.scheme # "none" /\ u.short

\* It stores the path of a URL it accepts.  The mutant stores it first.
PathStoredFirst(u) == u.path
PathStored(u) == IF WellFormed(u) THEN u.path ELSE ota_path

\* espconn_gethostbyname (external) starts a lookup in a free entry, also of a
\* name that is being looked up, or answers or refuses at once: then nothing is
\* called back and no update comes of it.
LookUp(u) ==
  LET others == {[l EXCEPT !.disturbed = TRUE] : l \in lookups} IN
  \/ \E e \in DnsEntries \ {l.entry : l \in lookups} :
       lookups' = others \cup {[entry |-> e, url |-> u, disturbed |-> FALSE]}
  \/ lookups' = others

\* user_ota_start.  The domain of a URL it refuses stays allocated; that of a
\* URL it accepts is freed at the end, and domain goes on pointing to it: the
\* next start frees it again.
user_ota_start(u) ==
  /\ ~ otaReboot
  /\ ota_path' = PathStored(u)
  /\ IF WellFormed(u) THEN domain' = "freed" /\ LookUp(u)
                      ELSE domain' = "live" /\ UNCHANGED lookups
  /\ UNCHANGED <<update, blocks, otaLogo, otaReboot, asked>>

\* ota_start_Upgrade, for the name of lookup l.  system_upgrade_start (external)
\* refuses while a download is under way, and may refuse otherwise.
Request(l) == [name |-> l.url.host, path |-> ota_path, disturbed |-> l.disturbed]

UpgradeStarts(l) ==
  /\ update = NoRequest
  /\ update' = Request(l) /\ asked' = Request(l) /\ blocks' = blocks + 1

UpgradeRefused == UNCHANGED <<update, asked, blocks>>

\* user_ota_dns_found: after a refused start, too, the LED is put out.
user_ota_dns_found(l) ==
  /\ l \in lookups /\ ~ otaReboot
  /\ lookups' = lookups \ {l}
  /\ IF ota_path = NoPath THEN UpgradeRefused /\ UNCHANGED otaLogo
     ELSE (UpgradeStarts(l) \/ UpgradeRefused) /\ otaLogo' = 0
  /\ UNCHANGED <<domain, ota_path, otaReboot>>

LookUpFails(l) ==
  /\ l \in lookups
  /\ lookups' = lookups \ {l}
  /\ UNCHANGED <<domain, ota_path, update, blocks, otaLogo, otaReboot, asked>>

\* ota_finished_callback, with upgrade_flag.  The mutant frees a success only.
LeftIfFailed(flag) == IF flag THEN blocks - 1 ELSE blocks
Left(flag) == blocks - 1

ota_finished_callback(flag) ==
  /\ update # NoRequest
  /\ update' = NoRequest
  /\ blocks' = Left(flag)
  /\ otaReboot' = (otaReboot \/ flag)
  /\ UNCHANGED <<domain, ota_path, lookups, otaLogo, asked>>

Reboots ==
  /\ otaReboot
  /\ domain' = "NULL" /\ ota_path' = NoPath
  /\ lookups' = {} /\ update' = NoRequest /\ blocks' = 0
  /\ otaLogo' = 1 /\ otaReboot' = FALSE
  /\ asked' = NoRequest

OtaNext ==
  \/ \E u \in Urls : user_ota_start(u)
  \/ \E l \in lookups : user_ota_dns_found(l) \/ LookUpFails(l)
  \/ \E flag \in BOOLEAN : ota_finished_callback(flag)
  \/ Reboots

OtaSpec == OtaInit /\ [][OtaNext]_otaVars

-----------------------------------------------------------------------------

\* Types, and: what an update allocated is freed once, whether the download
\* succeeds, fails or does not start.
OtaTypeOK ==
  /\ domain \in {"NULL", "live", "freed"}
  /\ ota_path \in {NoPath} \cup {u.path : u \in Urls}
  /\ blocks = (IF update = NoRequest THEN 0 ELSE 1)
  /\ otaLogo \in 0 .. 1 /\ otaReboot \in BOOLEAN

\* The path of the URL of one message is asked of the host of that URL, and
\* never a URL that user_ota_start refused - unless a second URL was accepted
\* while the first name was looked up: then the first host is asked for the
\* second path.
OneUrlPerRequest ==
  asked = NoRequest \/ asked.disturbed \/
  \E u \in Urls : WellFormed(u) /\ asked.name = u.host /\ asked.path = u.path
=============================================================================
