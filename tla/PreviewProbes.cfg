SPECIFICATION Spec
CONSTANTS
    plain1 = plain1
    plain2 = plain2
    plain3 = plain3
    picture = picture
    ico = ico
    None = None
    Fallback <- ico
    Url <- AllUrls
    Link <- Links
    ManifestIcon <- ManifestIcons2
    ImageUrl <- Pictures
    MaxLinks = 3
    MaxHTMLIconCandidates = 2
    MaxManifestIcons = 2
    MaxTotalCandidates = 4
    MaxContentTypeProbes = 2
INVARIANTS
    ExtensionlessFirst
CHECK_DEADLOCK FALSE
