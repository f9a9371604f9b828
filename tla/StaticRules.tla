----------------------------- MODULE StaticRules -----------------------------
(***************************************************************************)
(* The static classification of domains: a table of rules, evaluated from  *)
(* the top, and the operators on names it needs.  Names are lower case and *)
(* have no trailing dot (_normalize has been applied).                     *)
(***************************************************************************)
EXTENDS Naturals, Sequences

\* The name d begins with p, ends in p, has p somewhere.
StartsAt(p, d, i) == i + Len(p) - 1 <= Len(d) /\ SubSeq(d, i, i + Len(p) - 1) = p
EndsIn(p, d) == Len(p) <= Len(d) /\ StartsAt(p, d, Len(d) - Len(p) + 1)
Within(p, d) == \E i \in 1 .. Len(d) : StartsAt(p, d, i)

\* d is the domain p or one below it.  Mutant: without the dot before p.
BelowBySuffix(p, d) == EndsIn(p, d)

Below(p, d) == d = p \/ EndsIn("." \o p, d)

SuffixRule(category, patterns) == [category |-> category, type |-> "suffix", patterns |-> patterns]
InfixRule(category, patterns) == [category |-> category, type |-> "contains", patterns |-> patterns]

AdultRules == <<
  SuffixRule("ADULT_CONTENT", {
    "xvideos.com", "xnxx.com", "pornhub.com", "xhamster.com", "onlyfans.com", "redtube.com",
    "youporn.com", "tube8.com", "spankbang.com", "rule34.xxx", "beeg.com", "youjizz.com",
    "pornhd.com", "porn.com", "drtuber.com", "tnaflix.com", "empflix.com", "hclips.com",
    "upornia.com", "vporn.com", "xxxbunker.com", "slutload.com", "pornerbros.com",
    "pornotube.com", "keezmovies.com", "extremetube.com", "eporner.com", "faphouse.com",
    "brazzers.com", "realitykings.com", "bangbros.com", "chaturbate.com", "livejasmin.com",
    "stripchat.com", "bongacams.com", "camsoda.com", "myfreecams.com", "cam4.com", "nhentai.net",
    "hanime.tv", "betway.com", "bet365.com", "draftkings.com", "pokerstars.com"}),
  InfixRule("ADULT_CONTENT", {
    "casino", "gambling", "betting", "poker"})>>

AdsRules == <<
  SuffixRule("ADS_TRACKING", {
    "doubleclick.net", "googlesyndication.com", "googletagmanager.com", "googletagservices.com",
    "adnxs.com", "advertising.com", "adsystem.amazon.com", "scorecardresearch.com", "moatads.com",
    "facebook-pixel.com", "criteo.com", "outbrain.com", "taboola.com", "hotjar.com",
    "mixpanel.com", "segment.io", "segment.com", "amplitude.com", "heap.io", "quantserve.com",
    "openx.net", "rubiconproject.com", "pubmatic.com", "appsflyer.com", "adjust.com", "branch.io",
    "telemetry.api.swiftkey.com", "telemetry.microsoft.com", "data.microsoft.com",
    "browser.events.data.msn.com", "events.data.microsoft.com", "settings-win.data.microsoft.com"}),
  InfixRule("ADS_TRACKING", {
    "telemetry.", "analytics.", "tracker.", "tracking.", "pixel.", "metrics."}),
  SuffixRule("ADS_TRACKING", {
    "crashlytics.com", "bugsnag.com", "sentry.io"})>>

SocialRules == <<
  SuffixRule("SOCIAL_MEDIA", {
    "facebook.com", "facebook.net", "fbcdn.net", "instagram.com", "cdninstagram.com",
    "whatsapp.com", "whatsapp.net", "twitter.com", "x.com", "t.co", "twimg.com", "tiktok.com",
    "tiktokv.com", "snaptik.app", "snapchat.com", "sc-cdn.net", "linkedin.com", "licdn.com",
    "reddit.com", "redd.it", "redditmedia.com", "redditstatic.com", "pinterest.com", "pinimg.com",
    "tumblr.com", "discord.com", "discord.gg", "discordapp.com", "telegram.org", "t.me",
    "signal.org", "line.me", "viber.com", "vk.com", "twitch.tv", "twitchapps.com",
    "mastodon.social"})>>

StreamingRules == <<
  SuffixRule("STREAMING_VIDEO", {
    "youtube.com", "youtu.be", "ytimg.com", "googlevideo.com", "yt3.ggpht.com", "netflix.com",
    "nflxvideo.net", "nflximg.net", "nflxext.com", "disneyplus.com", "hulu.com", "primevideo.com",
    "amazonvideo.com", "spotify.com", "spotifycdn.com", "scdn.co", "apple.com",
    "itunes.apple.com", "music.apple.com", "mzstatic.com", "tidal.com", "soundcloud.com",
    "deezer.com", "vimeo.com", "peacocktv.com", "hbomax.com", "max.com", "paramountplus.com",
    "crunchyroll.com", "funimation.com", "twitch.tv", "dailymotion.com"})>>

GamingRules == <<
  SuffixRule("GAMING", {
    "steampowered.com", "steamcommunity.com", "steam-chat.com", "akamaihd.net", "epicgames.com",
    "unrealengine.com", "riotgames.com", "leagueoflegends.com", "valorant.com", "blizzard.com",
    "battle.net", "activision.com", "ea.com", "origin.com", "ubisoft.com", "uplay.com",
    "roblox.com", "rbxcdn.com", "minecraft.net", "mojang.com", "xbox.com", "xboxlive.com",
    "playfab.com", "playstation.com", "psn.com", "nintendo.com", "gog.com", "itch.io",
    "gameloft.com", "supercell.com", "clashofclans.com", "pubg.com", "fortnite.com", "2game.com",
    "poki.com"}),
  InfixRule("GAMING", {
    "gameserver", "gamecenter"})>>

EducationRules == <<
  SuffixRule("EDUCATION", {
    "wikipedia.org", "wikimedia.org", "khanacademy.org", "coursera.org", "udemy.com", "edx.org",
    "duolingo.com", "quizlet.com", "britannica.com", "scholar.google.com", "academia.edu",
    "researchgate.net", "jstor.org", "ted.com", "ted.org", "skillshare.com", "lynda.com",
    "linkedin.com", "udacity.com", "codecademy.com", "freecodecamp.org", "w3schools.com",
    "stackoverflow.com", "mathway.com", "wolframalpha.com", "brainly.com", "quora.com",
    "chegg.com"})>>

ConnectivityRules == <<
  SuffixRule("TECH_INFRASTRUCTURE", {
    "connectivitycheck.gstatic.com", "connectivitycheck.platform.hicloud.com"}),
  InfixRule("TECH_INFRASTRUCTURE", {
    "connectivitycheck"})>>

ProductivityRules == <<
  SuffixRule("PRODUCTIVITY", {
    "google.com", "googleapis.com", "gstatic.com", "gmail.com", "drive.google.com",
    "docs.google.com", "calendar.google.com", "meet.google.com", "microsoft.com", "live.com",
    "office.com", "office365.com", "microsoftonline.com", "sharepoint.com", "teams.microsoft.com",
    "outlook.com", "skype.com", "zoom.us", "zoomgov.com", "slack.com", "notion.so", "notion.com",
    "trello.com", "asana.com", "atlassian.com", "jira.com", "confluence.com", "dropbox.com",
    "box.com", "icloud.com", "me.com", "evernote.com", "todoist.com", "github.com", "gitlab.com",
    "bitbucket.org", "1password.com", "lastpass.com"})>>

NewsRules == <<
  SuffixRule("NEWS_MEDIA", {
    "bbc.com", "bbc.co.uk", "bbc.net", "cnn.com", "foxnews.com", "nytimes.com", "theguardian.com",
    "reuters.com", "apnews.com", "aljazeera.com", "aljazeera.net", "washingtonpost.com",
    "wsj.com", "bloomberg.com", "businessinsider.com", "huffpost.com", "vice.com", "buzzfeed.com",
    "techcrunch.com", "theverge.com", "wired.com", "arstechnica.com", "slashdot.org",
    "news.ycombinator.com", "medium.com"})>>

ShoppingRules == <<
  SuffixRule("SHOPPING", {
    "amazon.com", "amazon.co.uk", "amazon.de", "amazon.sa", "ssl-images-amazon.com",
    "media-amazon.com", "ebay.com", "ebayimg.com", "aliexpress.com", "alibaba.com", "taobao.com",
    "walmart.com", "target.com", "bestbuy.com", "etsy.com", "shopify.com", "myshopify.com",
    "booking.com", "airbnb.com", "airbnb-static.com", "expedia.com", "skyscanner.com",
    "kayak.com", "noon.com", "souq.com"})>>

InfrastructureRules == <<
  SuffixRule("TECH_INFRASTRUCTURE", {
    "akamaiedge.net", "akamaitechnologies.com", "akamai.net", "cloudfront.net", "fastly.net",
    "cloudflare.com", "cloudflare.net", "edgecastcdn.net", "awsstatic.com", "amazonaws.com",
    "azure.com", "azure.net", "azureedge.net", "azurewebsites.net", "windows.net", "msecnd.net",
    "visualstudio.com", "vsts.me", "google-analytics.com", "connectivitycheck.gstatic.com",
    "connectivitycheck.platform.hicloud.com", "captive.apple.com", "msftconnecttest.com",
    "dns.msftncsi.com"}),
  InfixRule("TECH_INFRASTRUCTURE", {
    "connectivitycheck"}),
  SuffixRule("TECH_INFRASTRUCTURE", {
    "ocsp.apple.com", "ocsp.digicert.com", "ocsp.comodoca.com", "ts.net", "crl.microsoft.com",
    "letsencrypt.org", "time.apple.com", "time.windows.com", "huawei.com", "hicloud.com",
    "hms.hicloud.com", "hwcld.com", "update.googleapis.com", "fonts.googleapis.com",
    "fonts.gstatic.com", "play.google.com", "clients1.google.com", "clients2.google.com",
    "clients3.google.com", "clients4.google.com"})>>

\* RULES: the order is the priority.
Rules == AdultRules \o AdsRules \o SocialRules \o StreamingRules \o GamingRules \o EducationRules
         \o ConnectivityRules \o ProductivityRules \o NewsRules \o ShoppingRules
         \o InfrastructureRules

\* A rule of the block applies to the name.
Matches(rule, d) ==
  \E p \in rule.patterns : IF rule.type = "suffix" THEN Below(p, d) ELSE Within(p, d)

\* classify: the category of the first rule that matches.
Classify(d) ==
  LET hits == {i \in DOMAIN Rules : Matches(Rules[i], d)}
  IN  IF hits = {} THEN "UNCATEGORIZED"
      ELSE Rules[CHOOSE i \in hits : \A j \in hits : i <= j].category
=============================================================================
