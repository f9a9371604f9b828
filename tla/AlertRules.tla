----------------------------- MODULE AlertRules -----------------------------
(***************************************************************************)
(* Which domains raise a safety alert, and which: the evaluators of        *)
(* alerts/rules.py and the priority in which alerts/engine.py asks them.   *)
(* A result is its type, its severity and the family of the rule that      *)
(* matched; titles and explanations are left out.                          *)
(***************************************************************************)
EXTENDS StaticRules, FiniteSets

KnownDoh == {
  "cloudflare-dns.com", "security.cloudflare-dns.com", "family.cloudflare-dns.com",
  "one.one.one.one", "1.1.1.1", "1.0.0.1", "dns.google", "dns.google.com", "dns64.dns.google",
  "dns.quad9.net", "dns10.quad9.net", "dns11.quad9.net", "dns.adguard.com", "dns.adguard-dns.com",
  "family.adguard-dns.com", "dns.nextdns.io", "doh.cleanbrowsing.org", "doh.mullvad.net",
  "dot.mullvad.net", "dns.mullvad.net", "doh.opendns.com", "doh.familyshield.opendns.com",
  "doh.dns.sb", "dns.brahma.world", "doh.libredns.gr", "doh.ffmuc.net", "ordns.he.net",
  "odvr.nic.cz", "doh.crypto.sx", "controld.com", "dns.controld.com", "freedns.controld.com",
  "use-application-dns.net", "doh.test", "dnssec-trigger.nl", "private.dns.microsoft.com"}

KnownVpn == {
  "nordvpn.com", "nordcdn.com", "expressvpn.com", "expressvpn.net", "surfshark.com",
  "surfsharkstatus.com", "protonvpn.com", "protonvpn.net", "mullvad.net", "windscribe.com",
  "windscribe.net", "tunnelbear.com", "hotspotshield.com", "hsselite.com", "hidemyass.com",
  "hola.org", "hola.com", "privateinternetaccess.com", "vyprvpn.com", "ipvanish.com",
  "cyberghostvpn.com", "purevpn.com", "ivacy.com", "vpnunlimited.com", "atlasvpn.com",
  "turbovpn.com", "vpnproxy.net", "riseup.net", "calyx.net"}

KnownTor == {
  "torproject.org", "tor.eff.org", "torproject.net", "torservers.net", "onion.city", "onion.cab",
  "onion.to", "onion.link", "tor2web.org"}

TunnelTokens == {
  "vpn", "wireguard", "openvpn", "shadowsocks", "v2ray", "trojan-go"}

AdultSubstrings == {
  "porn", "porno", "xxx", "sexy", "hentai", "camgirl", "camgirls", "playboy", "penthouse",
  "erotic", "fetish", "bdsm", "swinger", "stripclub", "brothel", "onlyfans", "fansly", "manyvids"}

AdultWords == {
  "sex", "nude", "nudes", "escort", "escorts", "milf"}

GamblingWords == {
  "1xbet", "melbet", "mostbet", "parimatch", "1win", "22bet", "betwinner", "unibet", "bwin",
  "ladbrokes", "williamhill", "paddypower", "skybet", "stake", "sportsbook", "bookmaker"}

PhishingPatterns == {
  <<{"paypal", "paypa1", "p-aypal"}, {"verify", "login", "update", "security"}>>,
  <<{"appleid", "icloud"}, {"verify", "account", "unlock", "support"}>>,
  <<{"netflix", "netf1ix"}, {"billing", "account", "update", "renew"}>>,
  <<{"google", "g00gle"}, {"security", "verification", "login-prompt"}>>,
  <<{"metamask", "trustwallet", "phantom-wallet"}, {"claim", "airdrop", "seed"}>>,
  <<{"bank", "secure-banking"}, {"login", "confirm", "alert"}>>,
  <<{"microsoft", "office365", "outlook", "onedrive", "sharepoint"},
    {"verify", "login", "password", "expired", "quota", "shared-file", "sharedfile"}>>,
  <<{"amazon", "amzn"}, {"verify", "order", "payment", "suspend", "refund", "prize"}>>,
  <<{"facebook", "meta", "instagram", "messenger"},
    {"verify", "login", "copyright", "appeal", "security"}>>,
  <<{"whatsapp", "wa-me"}, {"verify", "code", "prize", "gift", "voicemail"}>>,
  <<{"dhl", "aramex", "fedex", "ups", "chronopost", "amana", "ows"},
    {"pay", "payment", "fee", "customs", "deliver", "track", "parcel"}>>,
  <<{"binance", "coinbase", "kraken", "blockchain"},
    {"verify", "wallet", "suspend", "airdrop", "bonus"}>>,
  <<{"apple-pay", "icloud", "apple"}, {"bill", "invoice", "purchase", "subscription", "receipt"}>>,
  <<{"account", "profile"}, {"suspend", "locked", "restrict", "terminat"}>>,
  <<{"xn--"}, {"login", "verify", "bank", "paypal", "secure", "account", "update"}>>}

\* \b on both sides: letters, digits and _ are the word characters of a name.
Boundary(d, i) == i < 1 \/ i > Len(d) \/ SubSeq(d, i, i) \in {".", "-"}
Word(p, d) ==
  \E i \in 1 .. Len(d) : StartsAt(p, d, i) /\ Boundary(d, i - 1) /\ Boundary(d, i + Len(p))

\* A whole label of the name.
Label(p, d) ==
  \E i \in 1 .. Len(d) : StartsAt(p, d, i) /\ \A j \in {i - 1, i + Len(p)} :
    j < 1 \/ j > Len(d) \/ SubSeq(d, j, j) = "."

\* brand.*lure; a punycode prefix is followed by at least one character.
Lures(pattern, d) ==
  \E b \in pattern[1], l \in pattern[2], i, j \in 1 .. Len(d) :
    /\ StartsAt(b, d, i) /\ StartsAt(l, d, j)
    /\ i + Len(b) + (IF b = "xn--" THEN 1 ELSE 0) <= j

AlertType == {"UNSAFE_CATEGORY", "PHISHING_SUSPICIOUS", "BYPASS_ATTEMPT", "ANOMALOUS_BURST"}

Quiet == [type |-> "NONE", severity |-> "NONE", rule |-> "NONE"]
Result(type, severity, rule) == [type |-> type, severity |-> severity, rule |-> rule]

CheckUnsafeCategory(d, category) ==
  IF category # "ADULT_CONTENT" THEN Quiet
  ELSE IF \E k \in {"bet", "casino", "poker", "draftkings", "gambling", "lottery"} : Within(k, d)
       THEN Result("UNSAFE_CATEGORY", "HIGH", "GAMBLING")
       ELSE Result("UNSAFE_CATEGORY", "CRITICAL", "ADULT")

CheckExplicitKeywords(d) ==
  IF (\E k \in AdultSubstrings : Within(k, d)) \/ (\E k \in AdultWords : Word(k, d))
  THEN Result("UNSAFE_CATEGORY", "CRITICAL", "ADULT")
  ELSE IF (\E k \in GamblingWords : Word(k, d)) \/ Label("bet", d)
       THEN Result("UNSAFE_CATEGORY", "HIGH", "GAMBLING")
       ELSE Quiet

CheckPhishing(d) ==
  IF \E p \in PhishingPatterns : Lures(p, d)
  THEN Result("PHISHING_SUSPICIOUS", "HIGH", "PATTERN") ELSE Quiet

\* Mutant: not the names below a resolver.
CheckBypassExact(d, visibility) ==
  IF d \in KnownDoh THEN Result("BYPASS_ATTEMPT", "MEDIUM", "DOH")
  ELSE IF visibility = "PARTIAL" THEN Result("BYPASS_ATTEMPT", "MEDIUM", "PARTIAL")
  ELSE Quiet

CheckBypass(d, visibility) ==
  IF \E p \in KnownDoh : Below(p, d) THEN Result("BYPASS_ATTEMPT", "MEDIUM", "DOH")
  ELSE IF visibility = "PARTIAL" THEN Result("BYPASS_ATTEMPT", "MEDIUM", "PARTIAL")
  ELSE Quiet

CheckTunnel(d) ==
  IF \E p \in KnownTor : Below(p, d) THEN Result("BYPASS_ATTEMPT", "HIGH", "TOR")
  ELSE IF \E p \in KnownVpn : Below(p, d) THEN Result("BYPASS_ATTEMPT", "MEDIUM", "VPN")
  ELSE IF \E t \in TunnelTokens : Label(t, d) THEN Result("BYPASS_ATTEMPT", "MEDIUM", "TOKEN")
  ELSE Quiet

\* evaluate: the first evaluator that answers.  The caller passes the stored
\* category, or the static one.
Evaluate(d, category, visibility) ==
  LET checks == <<CheckUnsafeCategory(d, category), CheckExplicitKeywords(d), CheckPhishing(d),
                  CheckBypass(d, visibility), CheckTunnel(d)>>
      hits == {i \in DOMAIN checks : checks[i] # Quiet}
  IN  IF hits = {} THEN Quiet ELSE checks[CHOOSE i \in hits : \A j \in hits : i <= j]
=============================================================================
