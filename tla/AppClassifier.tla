---------------------------- MODULE AppClassifier ----------------------------
(***************************************************************************)
(* sniToAppType of types.cpp: the application a host name stands for.  The *)
(* patterns are looked for anywhere in the name, application after         *)
(* application, and the first that is found decides.                       *)
(***************************************************************************)
EXTENDS Naturals, Sequences

Upper == "ABCDEFGHIJKLMNOPQRSTUVWXYZ"
Lower == "abcdefghijklmnopqrstuvwxyz"

\* std::transform with std::tolower.
ToLower(name) ==
    LET Letter(c) == LET at == {i \in 1 .. 26 : SubSeq(Upper, i, i) = c}
                     IN IF at = {} THEN c
                        ELSE LET i == CHOOSE i \in at : TRUE IN SubSeq(Lower, i, i)
        prefix[n \in 0 .. Len(name)] ==
            IF n = 0 THEN "" ELSE prefix[n - 1] \o Letter(SubSeq(name, n, n))
    IN prefix[Len(name)]

\* std::string::find.
Finds(name, pattern) ==
    \E i \in 1 .. 1 + Len(name) - Len(pattern) :
        SubSeq(name, i, i + Len(pattern) - 1) = pattern

Patterns == <<
    <<"GOOGLE", {"google", "gstatic", "googleapis", "ggpht", "gvt1"}>>,
    <<"YOUTUBE", {"youtube", "ytimg", "youtu.be", "yt3.ggpht"}>>,
    <<"FACEBOOK", {"facebook", "fbcdn", "fb.com", "fbsbx", "meta.com"}>>,
    <<"INSTAGRAM", {"instagram", "cdninstagram"}>>,
    <<"WHATSAPP", {"whatsapp", "wa.me"}>>,
    <<"TWITTER", {"twitter", "twimg", "x.com", "t.co"}>>,
    <<"NETFLIX", {"netflix", "nflxvideo", "nflximg"}>>,
    <<"AMAZON", {"amazon", "amazonaws", "cloudfront", "aws"}>>,
    <<"MICROSOFT", {"microsoft", "msn.com", "office", "azure", "live.com", "outlook",
                    "bing"}>>,
    <<"APPLE", {"apple", "icloud", "mzstatic", "itunes"}>>,
    <<"TELEGRAM", {"telegram", "t.me"}>>,
    <<"TIKTOK", {"tiktok", "tiktokcdn", "musical.ly", "bytedance"}>>,
    <<"SPOTIFY", {"spotify", "scdn.co"}>>,
    <<"ZOOM", {"zoom"}>>,
    <<"DISCORD", {"discord", "discordapp"}>>,
    <<"GITHUB", {"github", "githubusercontent"}>>,
    <<"CLOUDFLARE", {"cloudflare", "cf-"}>> >>

\* The first application with a pattern in the name; HTTPS if there is none.
SniToAppType(sni) ==
    LET name == ToLower(sni)
        found == {i \in DOMAIN Patterns :
                    \E pattern \in Patterns[i][2] : Finds(name, pattern)}
    IN CASE sni = "" -> "UNKNOWN"
         [] sni # "" /\ found = {} -> "HTTPS"
         [] OTHER -> LET first == CHOOSE i \in found : \A j \in found : i <= j
                     IN Patterns[first][1]
=============================================================================
