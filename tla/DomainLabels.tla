---------------------------- MODULE DomainLabels ----------------------------
(***************************************************************************)
(* What the dashboard says of a domain beside its category: the security   *)
(* label (domain_security.py), the traffic tags and the search engine      *)
(* (traffic_tags.py).  These lists, the static rules and the alert rules   *)
(* are kept by hand in four files.                                         *)
(***************************************************************************)
EXTENDS AlertRules

DangerousKeywords == {
  "gambling", "casino", "porn", "adult", "xxx", "nsfw", "wagering", "lottery", "slots", "poker",
  "hookah", "weed", "cannabis", "heroin", "cocaine", "meth", "fentanyl", "opioid", "mdma",
  "assault", "violence", "hitman", "suicide", "self-harm", "knife", "weapon", "explosive", "bomb",
  "terrorist", "racist", "supremacist", "nazi", "white power", "hentai", "escort", "nude",
  "camgirl", "onlyfans", "fansly", "1xbet", "melbet", "mostbet", "parimatch", "unibet", "bet365",
  "betway", "draftkings", "pokerstars"}

DangerousTokens == {
  "bet", "gun", "kkk", "kill", "hate", "drug", "bombs", "stake"}

RiskyKeywords == {
  "chat", "dating", "hookup", "stranger", "anonymous", "tinder", "bumble", "hinge",
  "relationship", "dark", "shadow", "crypto", "bitcoin", "ethereum", "trading", "forex", "steam",
  "gaming", "roblox", "fortnite", "minecraft", "tiktok", "instagram", "snapchat", "whatsapp",
  "telegram", "reddit", "4chan", "discord", "cricfree", "proxy", "torrent", "facebook", "twitter"}

RiskyTokens == {
  "tor", "vpn", "proxy", "meet", "random", "stream", "watch", "free", "web", "deep", "dark"}

SafeRoots == {
  "google.com", "youtube.com", "youtu.be", "wikipedia.org", "github.com", "stackoverflow.com",
  "stackexchange.com", "khanacademy.org", "coursera.org", "edx.org", "udemy.com", "duolingo.com",
  "bbc.com", "bbc.co.uk", "cnn.com", "reuters.com", "nytimes.com", "gmail.com", "outlook.com",
  "office.com", "microsoft.com", "apple.com", "icloud.com", "spotify.com", "netflix.com",
  "disney.com", "disneyplus.com", "ebay.com", "amazon.com", "ubuntu.com", "canonical.com",
  "debian.org", "python.org", "mozilla.org", "firefox.com"}

Dangerous(d) == (\E k \in DangerousKeywords : Within(k, d)) \/ (\E t \in DangerousTokens : Word(t, d))
Risky(d) == (\E k \in RiskyKeywords : Within(k, d)) \/ (\E t \in RiskyTokens : Word(t, d))

\* classify_domain
SecurityLevel(d) ==
  IF Dangerous(d) THEN "DANGEROUS" ELSE IF Risky(d) THEN "RISKY"
  ELSE IF \E r \in SafeRoots : Below(r, d) THEN "SAFE" ELSE "UNKNOWN"

\* tags_for_domain
TagsForDomain(d) ==
  (IF \E p \in KnownDoh : Below(p, d) THEN {"DoH"} ELSE {})
  \cup (IF \E p \in KnownVpn : Below(p, d) THEN {"VPN"} ELSE {})
  \cup (IF \E p \in KnownTor : Below(p, d) THEN {"Tor"} ELSE {})
  \cup (IF Below("forcesafesearch.google.com", d)
           \/ d \in {"restrict.youtube.com", "restrictmoderate.youtube.com"}
        THEN {"SafeSearch"} ELSE {})

SearchEngines == {
  <<"google", {"google.com", "google.co.ma", "google.fr", "google.es", "google.de"}>>,
  <<"youtube", {"youtube.com", "youtu.be"}>>, <<"bing", {"bing.com"}>>,
  <<"duckduckgo", {"duckduckgo.com", "duck.ai"}>>, <<"yahoo", {"yahoo.com", "search.yahoo.com"}>>,
  <<"brave", {"search.brave.com"}>>, <<"ecosia", {"ecosia.org"}>>,
  <<"startpage", {"startpage.com"}>>, <<"qwant", {"qwant.com"}>>,
  <<"yandex", {"yandex.com", "yandex.ru", "yandex.kz", "yandex.by", "yandex.ua", "yandex.tr", "ya.ru"}>>,
  <<"mojeek", {"mojeek.com"}>>, <<"naver", {"naver.com"}>>, <<"daum", {"daum.net"}>>,
  <<"ask", {"ask.com"}>>, <<"baidu", {"baidu.com"}>>, <<"sogou", {"sogou.com"}>>,
  <<"seznam", {"seznam.cz", "search.seznam.cz"}>>, <<"reddit", {"reddit.com"}>>,
  <<"tiktok", {"tiktok.com"}>>, <<"wikipedia", {"wikipedia.org"}>>}

\* match_search_engine.  The roots of two engines are disjoint, so that their
\* order does not matter; the pattern for Google's other country domains is
\* left out.
MatchSearchEngine(d) == {e[1] : e \in {f \in SearchEngines : \E r \in f[2] : Below(r, d)}}

\* get_subject: the first key of the table in the leading label of the name,
\* else by the ending of that label.
SubjectKeys == <<
  <<"google", "Search">>, <<"youtube", "Video">>, <<"wikipedia", "Education">>,
  <<"facebook", "Social Media">>, <<"instagram", "Social Media">>, <<"tiktok", "Social Media">>,
  <<"whatsapp", "Messaging">>, <<"twitter", "Social Media">>, <<"reddit", "Social Media">>,
  <<"github", "Programming">>, <<"stackoverflow", "Programming">>, <<"netflix", "Streaming">>,
  <<"spotify", "Music">>, <<"amazon", "Shopping">>, <<"ebay", "Shopping">>, <<"news", "News">>,
  <<"bbc", "News">>, <<"cnn", "News">>, <<"gaming", "Gaming">>, <<"steam", "Gaming">>,
  <<"roblox", "Gaming">>, <<"gambling", "Gambling">>, <<"casino", "Gambling">>,
  <<"mail", "Email">>, <<"gmail", "Email">>, <<"outlook", "Email">>,
  <<"translate", "Translation">>, <<"dictionary", "Education">>>>
SubjectEndings == <<
  <<"tv", "Streaming">>, <<"news", "News">>, <<"game", "Gaming">>, <<"chat", "Chat">>,
  <<"learn", "Education">>, <<"shop", "Shopping">>>>

Leading(d) ==
  LET name == IF Len(d) > 4 /\ StartsAt("www.", d, 1) THEN SubSeq(d, 5, Len(d)) ELSE d
      dots == {i \in 1 .. Len(name) : StartsAt(".", name, i)}
  IN  IF dots = {} THEN name ELSE SubSeq(name, 1, (CHOOSE i \in dots : \A j \in dots : i <= j) - 1)

Subject(d) ==
  LET first(hits) == CHOOSE i \in hits : \A j \in hits : i <= j
      keys == {i \in DOMAIN SubjectKeys : Within(SubjectKeys[i][1], Leading(d))}
      ends == {i \in DOMAIN SubjectEndings : EndsIn(SubjectEndings[i][1], Leading(d))}
  IN  IF keys # {} THEN SubjectKeys[first(keys)][2]
      ELSE IF ends # {} THEN SubjectEndings[first(ends)][2] ELSE "Other"

\* The proxy's own table of engines: hosts and the parameters that carry the
\* keywords (_ENGINE_PARAMS; the pattern for other Google domains is left out).
EngineParams == {
  <<{"google.com", "google.co.ma", "google.fr", "bing.com", "duckduckgo.com", "duck.ai",
     "search.brave.com", "ecosia.org", "qwant.com", "mojeek.com", "daum.net", "ask.com",
     "seznam.cz", "search.seznam.cz", "reddit.com"}, <<"q">>>>,
  <<{"yahoo.com", "search.yahoo.com"}, <<"p">>>>,
  <<{"youtube.com", "youtu.be"}, <<"search_query">>>>,
  <<{"startpage.com", "naver.com", "sogou.com"}, <<"query">>>>,
  <<{"yandex.com", "yandex.ru", "yandex.kz", "yandex.by", "yandex.ua", "yandex.tr", "ya.ru"},
    <<"text">>>>,
  <<{"baidu.com"}, <<"wd">>>>, <<{"tiktok.com"}, <<"q", "keyword">>>>,
  <<{"wikipedia.org"}, <<"search">>>>}

\* _host_match: the parameters to look for, none for another host.
HostMatch(d) == {e[2] : e \in {f \in EngineParams : \E r \in f[1] : Below(r, d)}}

\* All the names that the lists know, and one below each of them.
Listed ==
  UNION {Rules[i].patterns : i \in {j \in DOMAIN Rules : Rules[j].type = "suffix"}}
  \cup UNION {e[2] : e \in SearchEngines} \cup KnownDoh \cup KnownVpn \cup KnownTor \cup SafeRoots
Names == Listed \cup {"www." \o d : d \in Listed}

(***************************************************************************)
(* What the tables promise of a name.                                      *)
(***************************************************************************)

\* A suffix rule gives its own domain its own category: none is shadowed by an
\* earlier one, but for two domains listed twice and some of the last block,
\* the catch-all for infrastructure, that lie below domains of earlier blocks.
RuleReached(p) ==
  \A i \in DOMAIN Rules : Rules[i].type = "suffix" /\ p \in Rules[i].patterns =>
    \/ Classify(p) = Rules[i].category
    \/ p \in {"twitch.tv", "linkedin.com"}
    \/ /\ \E j \in DOMAIN InfrastructureRules : Rules[i] = InfrastructureRules[j]
       /\ Classify(p) \in {"ADS_TRACKING", "STREAMING_VIDEO", "PRODUCTIVITY"}

\* A name tagged DoH, VPN or Tor raises an alert whatever category is stored
\* for it, an adult one raises the unsafe-category alert, and one that is
\* labelled safe raises none, a resolver below a safe root excepted.  A host
\* whose keywords the proxy reads is a search engine for the DNS view, too.
ListsConsistent(d) ==
  LET alert == Evaluate(d, Classify(d), "FULL") IN
  /\ TagsForDomain(d) \cap {"DoH", "VPN", "Tor"} # {} =>
       Evaluate(d, "UNCATEGORIZED", "FULL").type = "BYPASS_ATTEMPT"
  /\ Classify(d) = "ADULT_CONTENT" =>
       alert.type = "UNSAFE_CATEGORY" /\ SecurityLevel(d) # "SAFE"
  /\ SecurityLevel(d) = "SAFE" => alert.rule \in {"NONE", "DOH"}
  /\ Cardinality(MatchSearchEngine(d)) <= 1 /\ Cardinality(HostMatch(d)) <= 1
  /\ HostMatch(d) # {} => MatchSearchEngine(d) # {}
=============================================================================
