SPECIFICATION TraversalSpec
CONSTANTS
  NULL = NULL
  lib = lib tool = tool libName = libName toolName = toolName
  cve1 = cve1 cve2 = cve2 osv1 = osv1
  every = every productSbom = productSbom component = component again = again rebuilt = rebuilt model = model
  image = image binary = binary left = left right = right spdx = spdx Unlimited = Unlimited
  oldCve = oldCve newCve = newCve nvd = nvd csaf = csaf
  Names <- MCNames
  Sboms <- MCSboms
  Advisories <- MCAdvisories
  SbomDoc <- MCSbomDoc
  AdvisoryDoc <- MCAdvisoryDoc
  Corpora <- MCCorpora
INVARIANTS AffectedReported ReportedAffected CountsAgree PagesAgree
           AncestorsComplete ProductLinked CveRecordStands WalkComplete WayBack LatestExpected
